---- MODULE Spec2Model ----
(***************************************************************************)
(* State-machine model of the Nazara Renderer state cache                  *)
(* (src/src/Nazara/Renderer/Renderer.cpp).  The file-scope statics of the  *)
(* anonymous namespace are the variables; every public entry point is an   *)
(* operator from a snapshot of the state to the set of states the call can *)
(* leave, and an action that commits one of them.  The build modelled is   *)
(* the one with NAZARA_DEBUG and NAZARA_RENDERER_SAFE defined.             *)
(***************************************************************************)
EXTENDS Integers, Sequences, FiniteSets, TLC

\* ------------------------------------------------------------------ bounds
NumShaders == 2
NumContexts == 2
NumVertexBuffers == 1
NumTextures == 1
NumTextureUnits == 1
MaxVAOs == 3
RecomputeCap == 2
NumTargets == 2
NumSizes == 2
MaxReferences == 2
NumEntities == 1
MaxWorldsCreated == 2
MaxPosition == 1
MaxFrameRate == 1

\* ------------------------------------------------------- program constants
\* nullptr, for every pointer-valued static
Null == 0
\* the context NzContext::EnsureContext() makes current when none is
ThreadContext == 1
\* the location GetUniformLocation returns for an absent uniform
NoLocation == -1
\* the buffer Initialize() allocates for s_fullscreenQuadBuffer
FullscreenQuadBuffer == NumVertexBuffers + 1
\* the one index buffer the environment hands to SetIndexBuffer
IndexBuffer == 1

Shaders == 1..NumShaders
Contexts == 1..NumContexts
VertexBuffers == 1..NumVertexBuffers
Textures == 1..NumTextures
TextureUnitIds == 0..(NumTextureUnits - 1)
Targets == 1..NumTargets
\* the (width, height) pairs a render target can have; 0 is the zero vector
Sizes == 1..NumSizes

\* enum UpdateFlags, as the set of bits that are set
Update_Matrices == "Update_Matrices"
Update_Shader == "Update_Shader"
Update_Textures == "Update_Textures"
Update_VAO == "Update_VAO"
Update_None == {}

\* enum nzMatrixType, in declaration order (the order of the loops over it)
MatrixTypes == <<"Projection", "View", "World", "ViewProj", "WorldView", "WorldViewProj">>
MatrixTypeSet == {MatrixTypes[i] : i \in 1..Len(MatrixTypes)}
LeafTypes == {"Projection", "View", "World"}
CompositeTypes == {"ViewProj", "WorldView", "WorldViewProj"}
TypeIndex(type) == CHOOSE i \in 1..Len(MatrixTypes) : MatrixTypes[i] = type

\* ---------------------------------------------------------------- matrices
\* NzMatrix4f is modelled by 2x2 matrices over Z_2, row-major <<m11,m12,m21,m22>>,
\* row-vector convention: an affine matrix has last column (0,1).
Identity == <<1, 0, 0, 1>>
MatA == <<1, 0, 1, 1>>
MatrixInputs == {Identity, MatA}

\* NzMatrix4::Concatenate: this = this * m
Concatenate(a, m) ==
    << (a[1] * m[1] + a[2] * m[3]) % 2, (a[1] * m[2] + a[2] * m[4]) % 2,
       (a[3] * m[1] + a[4] * m[3]) % 2, (a[3] * m[2] + a[4] * m[4]) % 2 >>

\* NzMatrix4::ConcatenateAffine: the product computed as if both operands were
\* affine (last column taken to be (0,1) without reading it)
ConcatenateAffine(a, m) ==
    << (a[1] * m[1]) % 2, 0,
       (a[3] * m[1] + m[3]) % 2, 1 >>

\* GetUniformLocation(nzShaderUniform_*Matrix) of each shader: shader 1 declares
\* all six matrix uniforms, the others every second one.
HasUniform(shader, type) ==
    \/ shader = 1
    \/ (TypeIndex(type) + shader) % 2 = 0

GetUniformLocation(shader, type) ==
    IF HasUniform(shader, type) THEN TypeIndex(type) - 1 ELSE NoLocation

\* NzTexture::HasMipmaps
HasMipmaps(texture) == texture % 2 = 0

VARIABLES
    s_moduleReferenceCounter,
    s_matrices,
    s_updateFlags,
    s_shader,
    s_vertexBuffer,
    s_indexBuffer,
    s_instancing,
    s_currentVAO,
    s_vaos,
    s_dirtyTextureUnits,
    s_textureUnits,
    s_states,
    s_capInstancing,
    s_instancingBuffer,
    s_fullscreenQuadBuffer,
    s_useSamplerObjects,
    s_useVertexArrayObjects,
    s_target,
    s_targetSize,
    targets,
    currentContext,
    gl,
    crashed,
    hist,
    esu,
    call,
    components,
    dirtyEntities,
    m_entities,
    m_dynamicObjects,
    m_staticObjects,
    m_world,
    sys,
    nodes,
    bodies,
    upd

vars == << s_moduleReferenceCounter, s_matrices, s_updateFlags, s_shader,
           s_vertexBuffer, s_indexBuffer, s_instancing, s_currentVAO, s_vaos,
           s_dirtyTextureUnits, s_textureUnits, s_states, s_capInstancing,
           s_instancingBuffer, s_fullscreenQuadBuffer, s_useSamplerObjects,
           s_useVertexArrayObjects, s_target, s_targetSize, targets,
           currentContext, gl, crashed, hist, esu, call,
           components, dirtyEntities, m_entities, m_dynamicObjects,
           m_staticObjects, m_world, sys, nodes, bodies, upd >>

\* The state of the entity world and of its PhysicsSystem3D.
physVars == << components, dirtyEntities, m_entities, m_dynamicObjects,
              m_staticObjects, m_world, sys, nodes, bodies, upd >>

\* The statics as one record, so that a handler that calls another one
\* composes as a function application.
Snapshot ==
    [ s_moduleReferenceCounter |-> s_moduleReferenceCounter,
      s_matrices |-> s_matrices,
      s_updateFlags |-> s_updateFlags,
      s_shader |-> s_shader,
      s_vertexBuffer |-> s_vertexBuffer,
      s_indexBuffer |-> s_indexBuffer,
      s_instancing |-> s_instancing,
      s_currentVAO |-> s_currentVAO,
      s_vaos |-> s_vaos,
      s_dirtyTextureUnits |-> s_dirtyTextureUnits,
      s_textureUnits |-> s_textureUnits,
      s_states |-> s_states,
      s_capInstancing |-> s_capInstancing,
      s_instancingBuffer |-> s_instancingBuffer,
      s_fullscreenQuadBuffer |-> s_fullscreenQuadBuffer,
      s_useSamplerObjects |-> s_useSamplerObjects,
      s_useVertexArrayObjects |-> s_useVertexArrayObjects,
      s_target |-> s_target,
      s_targetSize |-> s_targetSize,
      targets |-> targets,
      currentContext |-> currentContext,
      gl |-> gl,
      crashed |-> crashed,
      hist |-> hist,
      esu |-> esu,
      call |-> call ]

Commit(st) ==
    /\ s_moduleReferenceCounter' = st.s_moduleReferenceCounter
    /\ s_matrices' = st.s_matrices
    /\ s_updateFlags' = st.s_updateFlags
    /\ s_shader' = st.s_shader
    /\ s_vertexBuffer' = st.s_vertexBuffer
    /\ s_indexBuffer' = st.s_indexBuffer
    /\ s_instancing' = st.s_instancing
    /\ s_currentVAO' = st.s_currentVAO
    /\ s_vaos' = st.s_vaos
    /\ s_dirtyTextureUnits' = st.s_dirtyTextureUnits
    /\ s_textureUnits' = st.s_textureUnits
    /\ s_states' = st.s_states
    /\ s_capInstancing' = st.s_capInstancing
    /\ s_instancingBuffer' = st.s_instancingBuffer
    /\ s_fullscreenQuadBuffer' = st.s_fullscreenQuadBuffer
    /\ s_useSamplerObjects' = st.s_useSamplerObjects
    /\ s_useVertexArrayObjects' = st.s_useVertexArrayObjects
    /\ s_target' = st.s_target
    /\ s_targetSize' = st.s_targetSize
    /\ targets' = st.targets
    /\ currentContext' = st.currentContext
    /\ gl' = st.gl
    /\ crashed' = st.crashed
    /\ hist' = st.hist
    /\ esu' = st.esu
    /\ call' = st.call
    /\ UNCHANGED physVars

\* ------------------------------------------------------ observation records
\* What the EnsureStateUpdate run of the last step did (called = FALSE when the
\* last step ran none).
NoESU ==
    [ called |-> FALSE, result |-> FALSE, reached |-> FALSE,
      sends |-> [t \in MatrixTypeSet |-> 0],
      attribCalls |-> 0, lookup |-> "none", key |-> <<>>, handle |-> Null,
      firstHandle |-> Null, switchedBefore |-> FALSE, undrawnBefore |-> FALSE,
      touchedBefore |-> FALSE,
      visited |-> {}, nullBind |-> FALSE, after |-> <<>>,
      textureBinds |-> {}, samplerBinds |-> {}, recomputed |-> {} ]

\* The call of the last step: its name, its argument and what it returned
\* or submitted.
Called(op, arg, ok) ==
    [ op |-> op, arg |-> arg, ok |-> ok, submitted |-> FALSE, targetCalls |-> <<>>,
      derefNull |-> FALSE, statesAccess |-> "none" ]

\* The state a handler starts from: the statics, with the observations of the
\* previous step dropped.
Entry == [ Snapshot EXCEPT !.esu = NoESU, !.call = Called("none", Null, TRUE) ]

\* ------------------------------------------------------------ matrix slots
\* The switch of SetMatrix: the slots whose updated flag the case of type clears.
InvalidatedBy_ViewClearsWorldView(type) ==
    CASE type = "Projection" -> {"ViewProj", "WorldViewProj"}
      [] type = "View" -> {"ViewProj", "WorldView", "WorldViewProj"}
      [] type = "World" -> {"WorldView", "WorldViewProj"}
      [] type = "ViewProj" -> {}
      [] type = "WorldView" -> {"WorldViewProj"}
      [] type = "WorldViewProj" -> {}

InvalidatedBy(type) ==
    CASE type = "Projection" -> {"ViewProj", "WorldViewProj"}
      [] type = "View" -> {"ViewProj", "World", "WorldViewProj"}
      [] type = "World" -> {"WorldView", "WorldViewProj"}
      [] type = "ViewProj" -> {}
      [] type = "WorldView" -> {"WorldViewProj"}
      [] type = "WorldViewProj" -> {}

SetMatrix(st, type, matrix) ==
    [ st EXCEPT
        !.s_matrices = [ t \in MatrixTypeSet |->
            IF t = type THEN [ @[t] EXCEPT !.matrix = matrix, !.updated = TRUE ]
            ELSE IF t \in InvalidatedBy(type) THEN [ @[t] EXCEPT !.updated = FALSE ]
            ELSE @[t] ],
        !.s_updateFlags = @ \cup {Update_Matrices},
        !.hist = [ @ EXCEPT !.recomputed = [c \in CompositeTypes |-> 0],
                            !.touched = TRUE ],
        !.call = Called("SetMatrix", type, TRUE) ]

\* One recomputation of UpdateMatrix: the slot takes the combined value and is
\* marked updated.
Recompute_KeepsFlag(st, type, value) ==
    [ st EXCEPT
        !.s_matrices[type].matrix = value,
        !.hist.recomputed[type] = IF @ < RecomputeCap THEN @ + 1 ELSE @,
        !.esu.recomputed = @ \cup {type} ]

Recompute(st, type, value) ==
    [ st EXCEPT
        !.s_matrices[type].matrix = value,
        !.s_matrices[type].updated = TRUE,
        !.hist.recomputed[type] = IF @ < RecomputeCap THEN @ + 1 ELSE @,
        !.esu.recomputed = @ \cup {type} ]

UpdateWorldView(st) ==
    Recompute(st, "WorldView",
              ConcatenateAffine(st.s_matrices["World"].matrix, st.s_matrices["View"].matrix))

UpdateMatrix(st, type) ==
    CASE type \in LeafTypes -> st
      [] type = "ViewProj" ->
            Recompute(st, "ViewProj",
                      Concatenate(st.s_matrices["View"].matrix, st.s_matrices["Projection"].matrix))
      [] type = "WorldView" -> UpdateWorldView(st)
      [] type = "WorldViewProj" ->
            LET s1 == IF ~st.s_matrices["WorldView"].updated THEN UpdateWorldView(st) ELSE st
            IN Recompute(s1, "WorldViewProj",
                         Concatenate(s1.s_matrices["WorldView"].matrix,
                                     s1.s_matrices["Projection"].matrix))

\* GetMatrix: the state it leaves; the value it returns is GetMatrixValue.
GetMatrix(st, type) ==
    LET s1 == IF ~st.s_matrices[type].updated THEN UpdateMatrix(st, type) ELSE st
    IN [ s1 EXCEPT !.call = Called("GetMatrix", type, ~st.s_matrices[type].updated) ]

GetMatrixValue(st, type) == GetMatrix(st, type).s_matrices[type].matrix

\* ----------------------------------------------------------------- setters
SetShader_KeepsFlags(st, shader) ==
    IF st.s_shader # shader
    THEN [ st EXCEPT !.s_shader = shader,
                     !.hist = [ @ EXCEPT !.switched = TRUE, !.undrawn = TRUE, !.touched = TRUE ],
                     !.call = Called("SetShader", shader, TRUE) ]
    ELSE [ st EXCEPT !.call = Called("SetShader", shader, FALSE) ]

\* Every shader the environment passes is compiled.
SetShader(st, shader) ==
    IF st.s_shader # shader
    THEN [ st EXCEPT !.s_shader = shader,
                     !.s_updateFlags = @ \cup {Update_Shader},
                     !.hist = [ @ EXCEPT !.switched = TRUE, !.undrawn = TRUE, !.touched = TRUE ],
                     !.call = Called("SetShader", shader, TRUE) ]
    ELSE [ st EXCEPT !.call = Called("SetShader", shader, FALSE) ]

\* NzVertexBuffer::IsHardware: the buffers of VertexBuffers and the fullscreen
\* quad live on the device, SoftwareVertexBuffer does not.
SoftwareVertexBuffer == NumVertexBuffers + 2
IsHardwareVertexBuffer(vertexBuffer) == vertexBuffer # SoftwareVertexBuffer

\* SetVertexBuffer without the storage check.
SetVertexBuffer_AcceptsAny(st, vertexBuffer) ==
    IF vertexBuffer # Null /\ st.s_vertexBuffer # vertexBuffer
    THEN [ st EXCEPT !.s_vertexBuffer = vertexBuffer,
                     !.s_updateFlags = @ \cup {Update_VAO},
                     !.call = Called("SetVertexBuffer", vertexBuffer, TRUE) ]
    ELSE [ st EXCEPT !.call = Called("SetVertexBuffer", vertexBuffer, FALSE) ]

SetVertexBuffer(st, vertexBuffer) ==
    IF vertexBuffer # Null /\ ~IsHardwareVertexBuffer(vertexBuffer)
    THEN [ st EXCEPT !.call = Called("SetVertexBuffer", vertexBuffer, FALSE) ]
    ELSE IF vertexBuffer # Null /\ st.s_vertexBuffer # vertexBuffer
    THEN [ st EXCEPT !.s_vertexBuffer = vertexBuffer,
                     !.s_updateFlags = @ \cup {Update_VAO},
                     !.call = Called("SetVertexBuffer", vertexBuffer, TRUE) ]
    ELSE [ st EXCEPT !.call = Called("SetVertexBuffer", vertexBuffer, FALSE) ]

\* NzIndexBuffer::IsSequential and IsHardware: IndexBuffer is a hardware buffer
\* with stored indices, SequentialIndexBuffer has implicit indices and no
\* storage on the device, SoftwareIndexBuffer stores its indices in main memory.
SequentialIndexBuffer == 2
SoftwareIndexBuffer == 3
IsSequential(indexBuffer) == indexBuffer = SequentialIndexBuffer
IsHardwareIndexBuffer(indexBuffer) == indexBuffer = IndexBuffer

\* SetIndexBuffer that marks the vertex array dirty whatever it is given.
SetIndexBuffer_AlwaysMarks(st, indexBuffer) ==
    IF indexBuffer # Null /\ ~IsSequential(indexBuffer) /\ ~IsHardwareIndexBuffer(indexBuffer)
    THEN [ st EXCEPT !.call = Called("SetIndexBuffer", indexBuffer, FALSE) ]
    ELSE [ st EXCEPT !.s_indexBuffer = indexBuffer,
                     !.s_updateFlags = @ \cup {Update_VAO},
                     !.call = Called("SetIndexBuffer", indexBuffer, TRUE) ]

SetIndexBuffer(st, indexBuffer) ==
    IF indexBuffer # Null /\ ~IsSequential(indexBuffer) /\ ~IsHardwareIndexBuffer(indexBuffer)
    THEN [ st EXCEPT !.call = Called("SetIndexBuffer", indexBuffer, FALSE) ]
    ELSE IF st.s_indexBuffer # indexBuffer
    THEN [ st EXCEPT !.s_indexBuffer = indexBuffer,
                     !.s_updateFlags = @ \cup {Update_VAO},
                     !.call = Called("SetIndexBuffer", indexBuffer, TRUE) ]
    ELSE [ st EXCEPT !.call = Called("SetIndexBuffer", indexBuffer, FALSE) ]

EnableInstancing(st, instancing) ==
    IF st.s_instancing # instancing
    THEN [ st EXCEPT !.s_updateFlags = @ \cup {Update_VAO},
                     !.s_instancing = instancing ]
    ELSE st

\* NzTextureSampler::UseMipmaps: sets the flag, TRUE iff it changed.
UseMipmapsChanges(sampler, mipmaps) == sampler.mipmaps # mipmaps
UseMipmaps(sampler, mipmaps) == [ sampler EXCEPT !.mipmaps = mipmaps ]

SetTexture(st, unit, texture) ==
    IF unit \notin DOMAIN st.s_textureUnits
    THEN [ st EXCEPT !.call = Called("SetTexture", unit, FALSE) ]
    ELSE IF st.s_textureUnits[unit].texture # texture
    THEN LET u == st.s_textureUnits[unit]
             changes == texture # Null /\ UseMipmapsChanges(u.sampler, HasMipmaps(texture))
         IN [ st EXCEPT
                !.s_textureUnits[unit] =
                    [ texture |-> texture,
                      sampler |-> IF texture # Null
                                  THEN UseMipmaps(u.sampler, HasMipmaps(texture))
                                  ELSE u.sampler,
                      samplerUpdated |-> IF changes THEN FALSE ELSE u.samplerUpdated,
                      textureUpdated |-> FALSE ],
                !.s_dirtyTextureUnits = @ \cup {unit},
                !.s_updateFlags = @ \cup {Update_Textures},
                !.call = Called("SetTexture", unit, TRUE) ]
    ELSE [ st EXCEPT !.call = Called("SetTexture", unit, TRUE) ]

\* SetTextureSampler without the range check on unit.
SetTextureSampler_NoRangeCheck(st, unit, sampler) ==
    LET units == st.s_textureUnits
        Updated(u) == [ u EXCEPT !.sampler = IF u.texture # Null
                                             THEN UseMipmaps(sampler, HasMipmaps(u.texture))
                                             ELSE sampler,
                                 !.samplerUpdated = FALSE ]
    IN [ st EXCEPT
           !.s_textureUnits = [ i \in DOMAIN units |->
                                   IF i = unit THEN Updated(units[i]) ELSE units[i] ],
           !.s_dirtyTextureUnits = @ \cup {unit},
           !.s_updateFlags = @ \cup {Update_Textures},
           !.call = Called("SetTextureSampler", unit, TRUE) ]

SetTextureSampler(st, unit, sampler) ==
    IF unit \notin DOMAIN st.s_textureUnits
    THEN [ st EXCEPT !.call = Called("SetTextureSampler", unit, FALSE) ]
    ELSE LET u == st.s_textureUnits[unit]
         IN [ st EXCEPT
                !.s_textureUnits[unit] =
                    [ u EXCEPT !.sampler = IF u.texture # Null
                                           THEN UseMipmaps(sampler, HasMipmaps(u.texture))
                                           ELSE sampler,
                               !.samplerUpdated = FALSE ],
                !.s_dirtyTextureUnits = @ \cup {unit},
                !.s_updateFlags = @ \cup {Update_Textures},
                !.call = Called("SetTextureSampler", unit, TRUE) ]

\* Enable: one toggle of s_states.parameters.
Enable(st, parameter, enable) ==
    IF st.currentContext = Null
    THEN [ st EXCEPT !.call = Called("Enable", parameter, FALSE) ]
    ELSE [ st EXCEPT !.s_states.parameters[parameter] = enable,
                     !.call = [ Called("Enable", parameter, TRUE) EXCEPT
                                  !.statesAccess = "write" ] ]

\* SetRenderStates: the record is assigned, whatever the state of the module.
SetRenderStates(st, states) ==
    [ st EXCEPT !.s_states = states,
                !.call = [ Called("SetRenderStates", states, TRUE) EXCEPT
                             !.statesAccess = "write" ] ]

\* GetRenderStates: the record is returned, whatever the state of the module.
GetRenderStates(st) ==
    [ st EXCEPT !.call = [ Called("GetRenderStates", st.s_states, TRUE) EXCEPT
                             !.statesAccess = "read" ] ]

\* ------------------------------------------------------ EnsureStateUpdate
\* if (s_updateFlags & Update_Shader): locations re-resolved in the bound
\* shader, every slot marked not sent, matrices marked dirty.
ShaderPass(st) ==
    IF Update_Shader \in st.s_updateFlags
    THEN [ st EXCEPT
             !.s_matrices = [ t \in MatrixTypeSet |->
                 [ @[t] EXCEPT !.location = GetUniformLocation(st.s_shader, t),
                               !.sent = FALSE ] ],
             !.s_updateFlags = (@ \cup {Update_Matrices}) \ {Update_Shader} ]
    ELSE st

\* What one dirty unit becomes in the texture loop, and what the device holds
\* for it afterwards.  Binding through a null texture is undefined: bindsNull
\* says the loop did it, and the device keeps the texture it had.
BindsTexture(st, u) == ~st.s_useSamplerObjects \/ ~u.textureUpdated
BindsSampler(st, u) == ~st.s_useSamplerObjects \/ ~u.samplerUpdated

TexturePass(st) ==
    IF Update_Textures \in st.s_updateFlags
    THEN LET dirty == st.s_dirtyTextureUnits
             units == st.s_textureUnits
         IN [ st EXCEPT
                !.s_textureUnits = [ i \in DOMAIN units |->
                    IF i \in dirty
                    THEN [ units[i] EXCEPT
                             !.textureUpdated = IF BindsTexture(st, units[i]) THEN TRUE ELSE @,
                             !.samplerUpdated = IF BindsSampler(st, units[i]) THEN TRUE ELSE @ ]
                    ELSE units[i] ],
                !.gl.textures = [ i \in DOMAIN @ |->
                    IF i \in dirty /\ i \in DOMAIN units /\ BindsTexture(st, units[i])
                       /\ units[i].texture # Null
                    THEN units[i].texture ELSE @[i] ],
                !.gl.samplers = [ i \in DOMAIN @ |->
                    IF i \in dirty /\ i \in DOMAIN units /\ BindsSampler(st, units[i])
                    THEN units[i].sampler ELSE @[i] ],
                !.esu.visited = dirty,
                !.esu.textureBinds =
                    { i \in dirty \cap DOMAIN units : BindsTexture(st, units[i]) },
                !.esu.samplerBinds =
                    { i \in dirty \cap DOMAIN units : BindsSampler(st, units[i]) },
                !.esu.nullBind = \E i \in dirty :
                    i \in DOMAIN units /\ BindsTexture(st, units[i]) /\ units[i].texture = Null,
                !.s_dirtyTextureUnits = {},
                !.s_updateFlags = @ \ {Update_Textures} ]
    ELSE st

\* The loop over the matrix slots, from slot i on.
RECURSIVE MatrixLoop(_, _)
MatrixLoop(st, i) ==
    IF i > Len(MatrixTypes) THEN st
    ELSE LET t == MatrixTypes[i]
         IN IF st.s_matrices[t].location # NoLocation
            THEN LET s1 == IF ~st.s_matrices[t].updated THEN UpdateMatrix(st, t) ELSE st
                 IN MatrixLoop([ s1 EXCEPT
                                   !.gl.uniforms[t] = s1.s_matrices[t].matrix,
                                   !.esu.sends[t] = @ + 1,
                                   !.s_matrices[t].sent = TRUE ], i + 1)
            ELSE MatrixLoop(st, i + 1)

\* The matrix pass that also sends the slots without a location.
MatrixPass_SendsAll(st) ==
    IF Update_Matrices \in st.s_updateFlags
    THEN LET s1 == MatrixLoop(st, 1)
             unlocated == { t \in MatrixTypeSet : s1.s_matrices[t].location = NoLocation }
         IN [ s1 EXCEPT
                !.s_matrices = [ t \in MatrixTypeSet |->
                    IF t \in unlocated THEN [ s1.s_matrices[t] EXCEPT !.sent = TRUE ]
                    ELSE s1.s_matrices[t] ],
                !.esu.sends = [ t \in MatrixTypeSet |->
                    IF t \in unlocated THEN 1 ELSE s1.esu.sends[t] ],
                !.s_updateFlags = @ \ {Update_Matrices} ]
    ELSE st

MatrixPass(st) ==
    IF Update_Matrices \in st.s_updateFlags
    THEN [ MatrixLoop(st, 1) EXCEPT !.s_updateFlags = @ \ {Update_Matrices} ]
    ELSE st

VAO_Key(st) == << st.currentContext, st.s_indexBuffer, st.s_vertexBuffer, st.s_instancing >>

\* glGenVertexArrays: a name that names no vertex array of the current context
\* (vertex arrays are not shared between contexts); the driver hands out the
\* smallest one.
GenVertexArray(st) ==
    CHOOSE n \in 1..(Cardinality(st.gl.vaos[st.currentContext]) + 1) :
        n \notin st.gl.vaos[st.currentContext]

\* The cache miss: a vertex array is generated, made current and stored under key.
InsertVAO_ReusesCurrent(st, key) ==
    [ st EXCEPT
        !.s_vaos = [ k \in DOMAIN @ \cup {key} |-> IF k = key THEN st.s_currentVAO ELSE @[k] ],
        !.hist.sessionKeys = @ \cup {key},
        !.esu.lookup = "miss" ]

InsertVAO(st, key) ==
    LET vao == GenVertexArray(st)
    IN [ st EXCEPT
           !.s_currentVAO = vao,
           !.gl.vaos[st.currentContext] = @ \cup {vao},
           !.s_vaos = [ k \in DOMAIN @ \cup {key} |-> IF k = key THEN vao ELSE @[k] ],
           !.hist.sessionKeys = @ \cup {key},
           !.esu.lookup = "miss" ]

\* The lookup in s_vaos; update is TRUE when the attributes must be specified.
LookupVAO(st) ==
    IF st.s_useVertexArrayObjects
    THEN IF VAO_Key(st) \notin DOMAIN st.s_vaos
         THEN InsertVAO(st, VAO_Key(st))
         ELSE [ st EXCEPT !.s_currentVAO = st.s_vaos[VAO_Key(st)], !.esu.lookup = "hit" ]
    ELSE st

\* if (update): the vertex buffer is bound and its attributes specified, then
\* the four instancing attributes through s_instancingBuffer when instancing.
\* With vertex-array objects the attribute state belongs to the vertex array
\* bound at 1366: gl.instanced holds the arrays of each context whose four
\* per-instance matrix attributes are enabled.
SpecifyAttributes(st) ==
    [ st EXCEPT !.esu.attribCalls = IF st.s_instancing THEN 2 ELSE 1,
                !.gl.instanced[st.currentContext] =
                    IF ~st.s_useVertexArrayObjects THEN @
                    ELSE IF st.s_instancing THEN @ \cup {st.s_currentVAO}
                    ELSE @ \ {st.s_currentVAO},
                !.gl.layout = [ vertexBuffer |-> st.s_vertexBuffer,
                                indexBuffer |-> st.s_indexBuffer,
                                instancing |-> st.s_instancing ] ]

\* The Update_VAO block once a vertex buffer is known to be set.
VAOPass(st) ==
    LET s1 == LookupVAO(st)
        update == ~st.s_useVertexArrayObjects \/ s1.esu.lookup = "miss"
        s2 == IF update THEN SpecifyAttributes(s1) ELSE s1
    IN IF st.s_useVertexArrayObjects
       THEN [ s2 EXCEPT !.s_updateFlags = @ \ {Update_VAO} ]
       ELSE s2

\* The tail of EnsureStateUpdate: the vertex array is bound, the textures
\* re-bound, the render states applied.
FinalBind(st) ==
    LET key == VAO_Key(st)
        first == IF key \in DOMAIN st.hist.firstVAO THEN st.hist.firstVAO[key] ELSE Null
    IN [ st EXCEPT
           !.gl.boundVAO = IF st.s_useVertexArrayObjects THEN st.s_currentVAO ELSE @,
           !.gl.textures = [ i \in DOMAIN @ |->
               IF i \in DOMAIN st.s_textureUnits /\ st.s_textureUnits[i].texture # Null
               THEN st.s_textureUnits[i].texture ELSE @[i] ],
           !.gl.states = st.s_states,
           !.esu.result = TRUE,
           !.esu.key = key,
           !.esu.handle = IF st.s_useVertexArrayObjects THEN st.s_currentVAO ELSE Null,
           !.esu.firstHandle = first,
           !.esu.after = << st.s_shader, st.s_vertexBuffer, st.s_indexBuffer,
                            st.s_instancing, st.s_updateFlags >>,
           !.hist.undrawn = FALSE,
           !.hist.firstVAO =
               IF st.s_useVertexArrayObjects /\ first = Null
               THEN [ k \in DOMAIN @ \cup {key} |-> IF k = key THEN st.s_currentVAO ELSE @[k] ]
               ELSE @ ]

\* The outcomes of a run that executed undefined behaviour: the process dies
\* there, or goes on as if the call through the null pointer had done nothing.
Outcomes(st, undefined) ==
    IF undefined THEN { st, [ st EXCEPT !.crashed = TRUE, !.esu.result = FALSE ] } ELSE { st }

\* EnsureStateUpdate: the set of states it can leave; esu.result is what it returns.
EnsureStateUpdate(st) ==
    LET e0 == [ NoESU EXCEPT !.called = TRUE,
                             !.switchedBefore = st.hist.switched,
                             !.undrawnBefore = st.hist.undrawn,
                             !.touchedBefore = st.hist.touched ]
        s0 == [ st EXCEPT !.esu = e0 ]
    IN IF st.currentContext = Null \/ st.s_shader = Null
       THEN { s0 }
       ELSE
         LET s1 == ShaderPass([ s0 EXCEPT
                      !.esu.reached = TRUE,
                      !.gl.uniforms = IF st.gl.program = st.s_shader THEN @
                                      ELSE [ t \in MatrixTypeSet |-> <<>> ],
                      !.gl.program = st.s_shader,
                      !.hist.switched = FALSE,
                      !.hist.touched = FALSE ])
             s2 == IF s1.s_updateFlags # Update_None
                   THEN MatrixPass(TexturePass(s1)) ELSE s1
             ub2 == s2.esu.nullBind
         IN IF Update_VAO \in s2.s_updateFlags /\ s2.s_vertexBuffer = Null
            THEN Outcomes(s2, ub2)
            ELSE LET s3 == IF Update_VAO \in s2.s_updateFlags THEN VAOPass(s2) ELSE s2
                     ub3 == ub2 \/ ( s3.esu.attribCalls > 0 /\ s3.s_instancing
                                     /\ s3.s_instancingBuffer = Null )
                 IN Outcomes(FinalBind(s3), ub3)

\* -------------------------------------------------------- module lifecycle
DefaultSampler == [ config |-> 0, mipmaps |-> TRUE ]
DefaultTextureUnit ==
    [ sampler |-> DefaultSampler, texture |-> Null,
      samplerUpdated |-> FALSE, textureUpdated |-> TRUE ]

RendererParameters == {"Blend"}
\* NzRenderStates(): every toggle off
DefaultRenderStates == [ parameters |-> [ p \in RendererParameters |-> FALSE ] ]

\* The graphics device before any context exists, and after NzOpenGL::Uninitialize
\* destroyed them all.
DeviceReset ==
    [ program |-> Null,
      uniforms |-> [ t \in MatrixTypeSet |-> <<>> ],
      textures |-> [ i \in TextureUnitIds |-> Null ],
      samplers |-> [ i \in TextureUnitIds |-> DefaultSampler ],
      states |-> DefaultRenderStates,
      vaos |-> [ c \in Contexts |-> {} ],
      instanced |-> [ c \in Contexts |-> {} ],
      boundVAO |-> Null,
      layout |-> [ vertexBuffer |-> Null, indexBuffer |-> Null, instancing |-> FALSE ] ]

NoHistory ==
    [ recomputed |-> [ c \in CompositeTypes |-> 0 ],
      switched |-> FALSE, undrawn |-> FALSE, touched |-> FALSE,
      firstVAO |-> [ k \in {} |-> Null ],
      sessionKeys |-> {} ]

\* NzContext::EnsureContext
EnsureContext(st) ==
    IF st.currentContext = Null THEN [ st EXCEPT !.currentContext = ThreadContext ] ELSE st

\* Uninitialize
Uninitialize(st) ==
    IF st.s_moduleReferenceCounter # 1
    THEN [ st EXCEPT
             !.s_moduleReferenceCounter = IF @ > 1 THEN @ - 1 ELSE @,
             !.call = Called("Uninitialize", Null, FALSE) ]
    ELSE [ st EXCEPT
             !.s_moduleReferenceCounter = 0,
             !.s_textureUnits = [ i \in {} |-> DefaultTextureUnit ],
             !.s_instancingBuffer = Null,
             !.currentContext = Null,
             !.gl = DeviceReset,
             !.hist = NoHistory,
             !.call = Called("Uninitialize", Null, TRUE) ]

\* Where Initialize can fail, in source order; "none" when it does not.
EarlyFailures == {"utility", "opengl"}
LateFailures == {"declaration", "fill", "material", "shaderBuilder", "sampler"}

\* The body of Initialize between NzOpenGL::Initialize and the fullscreen quad.
ResetState(st, cfg) ==
    LET instancing == cfg.instancing /\ cfg.bufferCreated
    IN [ EnsureContext(st) EXCEPT
           !.s_matrices = [ t \in MatrixTypeSet |->
               [ matrix |-> Identity, sent |-> FALSE, updated |-> TRUE,
                 location |-> NoLocation ] ],
           !.s_capInstancing = instancing,
           !.s_instancingBuffer = IF instancing THEN 1 ELSE Null,
           !.s_states = DefaultRenderStates,
           !.s_indexBuffer = Null,
           !.s_shader = Null,
           !.s_target = Null,
           !.s_textureUnits = [ i \in TextureUnitIds |->
               IF i \in DOMAIN @ THEN @[i] ELSE DefaultTextureUnit ],
           !.s_useSamplerObjects = cfg.samplerObjects,
           !.s_useVertexArrayObjects = cfg.vertexArrayObjects,
           !.s_vertexBuffer = Null,
           !.s_updateFlags = {Update_Matrices, Update_Shader, Update_VAO},
           !.hist.touched = TRUE ]

Initialize(st, cfg) ==
    IF st.s_moduleReferenceCounter # 0
    THEN [ st EXCEPT !.s_moduleReferenceCounter = @ + 1,
                     !.call = Called("Initialize", cfg.fail, TRUE) ]
    ELSE LET s0 == [ st EXCEPT !.s_moduleReferenceCounter = 1 ]
         IN IF cfg.fail \in EarlyFailures
            THEN [ s0 EXCEPT !.call = Called("Initialize", cfg.fail, FALSE) ]
            ELSE LET s1 == ResetState(s0, cfg)
                     s2 == IF cfg.fail = "declaration" THEN s1
                           ELSE [ s1 EXCEPT !.s_fullscreenQuadBuffer = FullscreenQuadBuffer ]
                 IN IF cfg.fail \in LateFailures
                    THEN [ Uninitialize(s2) EXCEPT !.call = Called("Initialize", cfg.fail, FALSE) ]
                    ELSE [ s2 EXCEPT !.call = Called("Initialize", cfg.fail, TRUE) ]

\* ------------------------------------------------------- draw entry points
\* What follows EnsureStateUpdate in a draw entry point: the draw command is
\* issued when it returned true; unbind says whether glBindVertexArray(0) follows.
Submit_IgnoresResult(st, op, unbind) ==
    IF ~st.crashed
    THEN [ st EXCEPT !.call = [ Called(op, Null, TRUE) EXCEPT !.submitted = TRUE ],
                     !.gl.boundVAO = IF unbind THEN Null ELSE @ ]
    ELSE [ st EXCEPT !.call = Called(op, Null, FALSE) ]

Submit(st, op, unbind) ==
    IF st.esu.result /\ ~st.crashed
    THEN [ st EXCEPT !.call = [ Called(op, Null, TRUE) EXCEPT !.submitted = TRUE ],
                     !.gl.boundVAO = IF unbind THEN Null ELSE @ ]
    ELSE [ st EXCEPT !.call = Called(op, Null, FALSE) ]

Rejected(st, op) == { [ st EXCEPT !.call = Called(op, Null, FALSE) ] }

NAZARA_RENDERER_MAX_INSTANCES == 1

InstancingRejected(st, instanceCount) ==
    \/ ~st.s_capInstancing
    \/ instanceCount = 0
    \/ instanceCount > NAZARA_RENDERER_MAX_INSTANCES

\* SetInstancingData: hasData says whether instancingData is non-null.  The
\* Fill goes through s_instancingBuffer unchecked; through a null pointer it is
\* undefined.
SetInstancingData(st, hasData, instanceCount) ==
    IF InstancingRejected(st, instanceCount) \/ ~hasData
    THEN { [ st EXCEPT !.call = Called("SetInstancingData", instanceCount, FALSE) ] }
    ELSE IF st.s_instancingBuffer = Null
    THEN { [ st EXCEPT !.call = [ Called("SetInstancingData", instanceCount, TRUE)
                                    EXCEPT !.derefNull = TRUE ],
                       !.crashed = died ] : died \in BOOLEAN }
    ELSE { [ st EXCEPT !.call = Called("SetInstancingData", instanceCount, TRUE) ] }

DrawFullscreenQuad(st) ==
    IF st.currentContext = Null THEN Rejected(st, "DrawFullscreenQuad")
    ELSE LET s1 == EnableInstancing(st, FALSE)
             s2 == SetIndexBuffer(s1, Null)
             s3 == SetVertexBuffer(s2, st.s_fullscreenQuadBuffer)
         IN { Submit(out, "DrawFullscreenQuad", FALSE) : out \in EnsureStateUpdate(s3) }

DrawIndexedPrimitives(st) ==
    IF st.currentContext = Null \/ st.s_indexBuffer = Null
    THEN Rejected(st, "DrawIndexedPrimitives")
    ELSE { Submit(out, "DrawIndexedPrimitives", TRUE) :
              out \in EnsureStateUpdate(EnableInstancing(st, FALSE)) }

DrawIndexedPrimitivesInstanced(st, instanceCount) ==
    IF st.currentContext = Null \/ InstancingRejected(st, instanceCount)
       \/ st.s_indexBuffer = Null
    THEN Rejected(st, "DrawIndexedPrimitivesInstanced")
    ELSE { Submit(out, "DrawIndexedPrimitivesInstanced", TRUE) :
              out \in EnsureStateUpdate(EnableInstancing(st, TRUE)) }

DrawPrimitives(st) ==
    IF st.currentContext = Null THEN Rejected(st, "DrawPrimitives")
    ELSE { Submit(out, "DrawPrimitives", TRUE) :
              out \in EnsureStateUpdate(EnableInstancing(st, FALSE)) }

DrawPrimitivesInstanced(st, instanceCount) ==
    IF st.currentContext = Null \/ InstancingRejected(st, instanceCount)
    THEN Rejected(st, "DrawPrimitivesInstanced")
    ELSE { Submit(out, "DrawPrimitivesInstanced", TRUE) :
              out \in EnsureStateUpdate(EnableInstancing(st, TRUE)) }

\* NzContext::SetActive, called by the application or by a render target: the
\* context NzContext::GetCurrent() returns from now on.
SetCurrentContext(st, context) ==
    [ st EXCEPT !.currentContext = context,
                !.call = Called("SetCurrentContext", context, TRUE) ]

\* ------------------------------------------------------------ render targets
\* The render targets of the application: the ones that are activated, and the
\* size each one has now.
NoTargets == [ active |-> {}, size |-> [ t \in Targets |-> 1 ] ]

\* NzRenderTarget::HasContext: a render window owns its context, a render
\* texture does not.
HasContext(target) == target % 2 = 1

\* SetTarget with no early return for the target that is already current.
SetTarget_AlwaysReactivates(st, target, renderable, activates) ==
    LET released == IF st.s_target # Null /\ ~HasContext(st.s_target)
                    THEN << <<"Desactivate", st.s_target>> >> ELSE <<>>
        s1 == [ st EXCEPT
                  !.targets.active = IF st.s_target # Null /\ ~HasContext(st.s_target)
                                     THEN @ \ {st.s_target} ELSE @,
                  !.s_target = Null ]
    IN IF target = Null
       THEN [ s1 EXCEPT !.call = [ Called("SetTarget", target, TRUE) EXCEPT
                                     !.targetCalls = released ] ]
       ELSE IF ~renderable
       THEN [ s1 EXCEPT !.call = [ Called("SetTarget", target, FALSE) EXCEPT
                                     !.targetCalls = released ] ]
       ELSE IF ~activates
       THEN [ s1 EXCEPT !.call = [ Called("SetTarget", target, FALSE) EXCEPT
                                     !.targetCalls = released \o << <<"Activate", target>> >> ] ]
       ELSE [ s1 EXCEPT
                !.targets.active = @ \cup {target},
                !.s_target = target,
                !.s_targetSize = st.targets.size[target],
                !.call = [ Called("SetTarget", target, TRUE) EXCEPT
                             !.targetCalls = released \o << <<"Activate", target>>,
                                                            <<"GetSize", target>> >> ] ]

\* SetTarget: renderable is what target->IsRenderable() answers, activates what
\* target->Activate() returns; call.targetCalls lists the calls made on targets.
SetTarget(st, target, renderable, activates) ==
    IF st.s_target = target
    THEN [ st EXCEPT !.call = Called("SetTarget", target, TRUE) ]
    ELSE SetTarget_AlwaysReactivates(st, target, renderable, activates)

\* The application resizes a render target (a window is resized, a render
\* texture re-created) outside the Renderer.
ResizeTarget(st, target, size) ==
    [ st EXCEPT !.targets.size[target] = size,
                !.call = Called("ResizeTarget", target, TRUE) ]

\* A render target of size n is n wide and n high.
GetWidth(st, target) == st.targets.size[target]
GetHeight(st, target) == st.targets.size[target]

\* NzRectui arguments: origin and extent.
Rects == [ x : 0..1, y : 0..1, width : 0..NumSizes, height : 0..NumSizes ]

\* The body shared by SetViewport and SetScissorRect; op names the caller and
\* the gl command it issues.  s_target->GetHeight() is evaluated before the
\* test of s_target: with no target the read is undefined, and the build either
\* faults on it, goes on to report "Renderer has no target", or, the test
\* having been dropped as redundant after the dereference, goes on to issue the
\* command with whatever was read.
SetRect(st, op, rect) ==
    IF st.currentContext = Null THEN { [ st EXCEPT !.call = Called(op, rect, FALSE) ] }
    ELSE IF st.s_target = Null
    THEN { [ st EXCEPT !.call = [ Called(op, rect, FALSE) EXCEPT !.derefNull = TRUE ],
                       !.crashed = TRUE ],
           [ st EXCEPT !.call = [ Called(op, rect, FALSE) EXCEPT !.derefNull = TRUE ] ],
           [ st EXCEPT !.call = [ Called(op, rect, TRUE) EXCEPT !.derefNull = TRUE,
                                                                !.submitted = TRUE ] ] }
    ELSE LET height == GetHeight(st, st.s_target)
             width == GetWidth(st, st.s_target)
         IN IF rect.x + rect.width > width \/ rect.y + rect.height > height
            THEN { [ st EXCEPT !.call = [ Called(op, rect, FALSE) EXCEPT
                        !.targetCalls = << <<"GetHeight", st.s_target>>,
                                           <<"GetWidth", st.s_target>> >> ] ] }
            ELSE { [ st EXCEPT !.call = [ Called(op, rect, TRUE) EXCEPT
                        !.submitted = TRUE,
                        !.targetCalls = << <<"GetHeight", st.s_target>>,
                                           <<"GetWidth", st.s_target>> >> ] ] }

SetScissorRect(st, rect) == SetRect(st, "SetScissorRect", rect)

SetViewport(st, viewport) == SetRect(st, "SetViewport", viewport)

\* ----------------------------------------------- entities and PhysicsSystem3D
Entities == 1..NumEntities
ComponentTypes ==
    { "NodeComponent", "CollisionComponent3D", "PhysicsComponent3D", "PhysicsComponent2D" }

\* PhysicsSystem3D::PhysicsSystem3D(): the three component sets it declares.
RequiredComponents == { "NodeComponent" }
RequiredAnyComponents == { "CollisionComponent3D", "PhysicsComponent3D" }
ExcludedComponents_None == {}
ExcludedComponents == { "PhysicsComponent2D" }

\* The world and its system as one record.
PhysSnapshot ==
    [ components |-> components,
      dirtyEntities |-> dirtyEntities,
      m_entities |-> m_entities,
      m_dynamicObjects |-> m_dynamicObjects,
      m_staticObjects |-> m_staticObjects,
      m_world |-> m_world,
      sys |-> sys,
      nodes |-> nodes,
      bodies |-> bodies,
      upd |-> upd ]

CommitPhysics(ps) ==
    /\ components' = ps.components
    /\ dirtyEntities' = ps.dirtyEntities
    /\ m_entities' = ps.m_entities
    /\ m_dynamicObjects' = ps.m_dynamicObjects
    /\ m_staticObjects' = ps.m_staticObjects
    /\ m_world' = ps.m_world
    /\ sys' = ps.sys
    /\ nodes' = ps.nodes
    /\ bodies' = ps.bodies
    /\ upd' = ps.upd
    /\ UNCHANGED << s_moduleReferenceCounter, s_matrices, s_updateFlags, s_shader,
                    s_vertexBuffer, s_indexBuffer, s_instancing, s_currentVAO, s_vaos,
                    s_dirtyTextureUnits, s_textureUnits, s_states, s_capInstancing,
                    s_instancingBuffer, s_fullscreenQuadBuffer, s_useSamplerObjects,
                    s_useVertexArrayObjects, s_target, s_targetSize, targets,
                    currentContext, gl, crashed, hist, esu, call >>

InstallPhysics(ps) ==
    /\ components = ps.components
    /\ dirtyEntities = ps.dirtyEntities
    /\ m_entities = ps.m_entities
    /\ m_dynamicObjects = ps.m_dynamicObjects
    /\ m_staticObjects = ps.m_staticObjects
    /\ m_world = ps.m_world
    /\ sys = ps.sys
    /\ nodes = ps.nodes
    /\ bodies = ps.bodies
    /\ upd = ps.upd

\* What the last step did to the system: the operation, its entity, whether
\* the system was asked to validate, how often a physics world was created in
\* the life of this system object, whether the assertion of CreatePhysWorld
\* failed, and whether OnEntityValidation ran on this system object.
NoSys ==
    [ op |-> "none", entity |-> Null, justAdded |-> FALSE, created |-> 0,
      assertFailed |-> FALSE, validated |-> FALSE, createdNow |-> FALSE ]

\* Positions on one axis, rotations as turns about one axis, the elapsed time
\* of a tick as a fraction num/den: 0, or one tick of a frame rate.
Positions == 0..MaxPosition
Rotations == { 0, 1 }
Poses == [ position : Positions, rotation : Rotations ]
ElapsedTimes ==
    { [ num |-> 0, den |-> 1 ] } \cup { [ num |-> 1, den |-> r ] : r \in 1..MaxFrameRate }

\* 1.f / elapsedTime: finite unless elapsedTime is 0.
Reciprocal(elapsedTime) ==
    [ finite |-> elapsedTime.num # 0,
      value |-> IF elapsedTime.num # 0 THEN elapsedTime.den ELSE 0 ]

\* A difference times the reciprocal: the product with an infinite factor is
\* not finite, and keeps the sign of the difference.
Scale(difference, inv) ==
    [ finite |-> inv.finite,
      value |-> IF inv.finite THEN difference * inv.value
                ELSE IF difference > 0 THEN 1 ELSE IF difference < 0 THEN -1 ELSE 0 ]

ZeroVelocity == [ finite |-> TRUE, value |-> 0 ]

\* Quaternion product with the conjugate and ToEulerAngles, about one axis.
TransitionAngle(newRotation, oldRotation) == newRotation - oldRotation

\* NodeComponent of an entity: global position and rotation.
Origin == [ position |-> 0, rotation |-> 0 ]

\* The rigid body of an entity (the body of its PhysicsComponent3D, or the
\* static body of its CollisionComponent3D).
RestingBody ==
    [ position |-> 0, rotation |-> 0,
      velocity |-> ZeroVelocity, angularVelocity |-> ZeroVelocity ]

\* What the last OnUpdate did: the elapsed time it got, the number of Step
\* calls, whether a transform was synchronized before the step, whether the
\* reciprocal was taken, the bodies as the step left them, the entities whose
\* node or body was read or written, the entities on which a component was
\* looked up that they do not have, and whether that lookup stopped the program.
NoUpdate ==
    [ called |-> FALSE, elapsedTime |-> [ num |-> 0, den |-> 1 ], steps |-> 0,
      syncBeforeStep |-> FALSE, reciprocal |-> FALSE, stepped |-> << >>,
      nodeReads |-> {}, nodeWrites |-> {}, bodyReads |-> {}, bodyWrites |-> {},
      missing |-> {}, crashed |-> FALSE ]

\* A default-constructed PhysicsSystem3D in a world whose entities have no
\* component yet; m_world is TRUE when the unique_ptr holds a world.
NewWorld ==
    [ components |-> [ e \in Entities |-> {} ],
      dirtyEntities |-> {},
      m_entities |-> {},
      m_dynamicObjects |-> {},
      m_staticObjects |-> {},
      m_world |-> FALSE,
      sys |-> NoSys,
      nodes |-> [ e \in Entities |-> Origin ],
      bodies |-> [ e \in Entities |-> RestingBody ],
      upd |-> NoUpdate ]

\* BaseSystem::Filters: all required, none excluded, one of the required-any
\* when there are some.
Filters(ps, entity) ==
    /\ RequiredComponents \subseteq ps.components[entity]
    /\ ExcludedComponents \cap ps.components[entity] = {}
    /\ RequiredAnyComponents # {} => RequiredAnyComponents \cap ps.components[entity] # {}

HasComponent(ps, entity, component) == component \in ps.components[entity]

\* CreatePhysWorld: the assertion, then the allocation.
CreatePhysWorld(ps) ==
    [ ps EXCEPT !.m_world = TRUE,
                !.sys.assertFailed = @ \/ ps.m_world,
                !.sys.createdNow = TRUE,
                !.sys.created = IF @ < MaxWorldsCreated THEN @ + 1 ELSE @ ]

\* OnEntityValidation that creates the physics world unconditionally.
OnEntityValidation_AlwaysCreates(ps, entity, justAdded) ==
    LET dynamic == HasComponent(ps, entity, "PhysicsComponent3D")
        p1 == IF ~justAdded
              THEN IF dynamic
                   THEN [ ps EXCEPT !.m_staticObjects = @ \ {entity} ]
                   ELSE [ ps EXCEPT !.m_dynamicObjects = @ \ {entity} ]
              ELSE ps
        p2 == IF dynamic
              THEN [ p1 EXCEPT !.m_dynamicObjects = @ \cup {entity} ]
              ELSE [ p1 EXCEPT !.m_staticObjects = @ \cup {entity} ]
    IN CreatePhysWorld([ p2 EXCEPT !.sys.validated = TRUE, !.sys.justAdded = justAdded ])

OnEntityValidation(ps, entity, justAdded) ==
    LET dynamic == HasComponent(ps, entity, "PhysicsComponent3D")
        p1 == IF ~justAdded
              THEN IF dynamic
                   THEN [ ps EXCEPT !.m_staticObjects = @ \ {entity} ]
                   ELSE [ ps EXCEPT !.m_dynamicObjects = @ \ {entity} ]
              ELSE ps
        p2 == IF dynamic
              THEN [ p1 EXCEPT !.m_dynamicObjects = @ \cup {entity} ]
              ELSE [ p1 EXCEPT !.m_staticObjects = @ \cup {entity} ]
        p3 == [ p2 EXCEPT !.sys.validated = TRUE, !.sys.justAdded = justAdded ]
    IN IF ~p3.m_world THEN CreatePhysWorld(p3) ELSE p3

\* The start of a step on the world: the observations that describe one step
\* are dropped, the ones that describe the life of the system object are kept.
PhysEntry(op, entity) ==
    [ PhysSnapshot EXCEPT !.sys = [ @ EXCEPT !.op = op, !.entity = entity,
                                            !.justAdded = FALSE, !.createdNow = FALSE ],
                          !.upd = NoUpdate ]

\* Entity::AddComponent / RemoveComponent: the composition changes and the
\* entity is queued for re-validation.
AddComponent(ps, entity, component) ==
    [ ps EXCEPT !.components[entity] = @ \cup {component},
                !.dirtyEntities = @ \cup {entity} ]

RemoveComponent(ps, entity, component) ==
    [ ps EXCEPT !.components[entity] = @ \ {component},
                !.dirtyEntities = @ \cup {entity} ]

\* The world re-validates one queued entity against the system: it joins the
\* system (justAdded), is validated again, or leaves it.
ValidateEntity(ps, entity) ==
    LET p0 == [ ps EXCEPT !.dirtyEntities = @ \ {entity} ]
    IN IF Filters(ps, entity)
       THEN IF entity \notin ps.m_entities
            THEN OnEntityValidation([ p0 EXCEPT !.m_entities = @ \cup {entity} ], entity, TRUE)
            ELSE OnEntityValidation(p0, entity, FALSE)
       ELSE [ p0 EXCEPT !.m_entities = @ \ {entity} ]

\* The scene graph moves the node of an entity.
MoveNode(ps, entity, pose) ==
    [ ps EXCEPT !.nodes[entity] = pose ]

\* PhysWorld3D::Step: the simulation moves every dynamic body (the body of a
\* PhysicsComponent3D) to the pose it computes, and leaves static bodies alone.
Step(ps, elapsedTime, pose) ==
    LET moved == [ e \in Entities |->
                     IF HasComponent(ps, e, "PhysicsComponent3D")
                     THEN [ ps.bodies[e] EXCEPT !.position = pose.position,
                                                !.rotation = pose.rotation ]
                     ELSE ps.bodies[e] ]
    IN [ ps EXCEPT !.bodies = moved,
                   !.upd.steps = @ + 1,
                   !.upd.syncBeforeStep = @ \/ ps.upd.nodeWrites # {} \/ ps.upd.bodyWrites # {},
                   !.upd.stepped = moved ]

\* The first loop of OnUpdate: the node of every entity of m_dynamicObjects
\* takes the rotation and position of its rigid body.
SyncDynamic(ps) ==
    LET dyn == ps.m_dynamicObjects
    IN [ ps EXCEPT
           !.nodes = [ e \in Entities |->
                         IF e \in dyn
                         THEN [ position |-> ps.bodies[e].position,
                                rotation |-> ps.bodies[e].rotation ]
                         ELSE ps.nodes[e] ],
           !.upd.bodyReads = @ \cup dyn,
           !.upd.nodeWrites = @ \cup dyn,
           !.upd.missing = @ \cup
               { e \in dyn : ~HasComponent(ps, e, "NodeComponent")
                             \/ ~HasComponent(ps, e, "PhysicsComponent3D") } ]

\* One iteration of the second loop: the static body follows the node.
SyncStaticBody(body, node, inv) ==
    LET b1 == IF node.position # body.position
              THEN [ body EXCEPT !.position = node.position,
                                 !.velocity = Scale(node.position - body.position, inv) ]
              ELSE [ body EXCEPT !.velocity = ZeroVelocity ]
    IN IF node.rotation # body.rotation
       THEN [ b1 EXCEPT !.rotation = body.rotation,
                        !.angularVelocity =
                            Scale(TransitionAngle(node.rotation, body.rotation), inv) ]
       ELSE [ b1 EXCEPT !.angularVelocity = ZeroVelocity ]

\* The second loop of OnUpdate behind a test of the elapsed time.
SyncStatic_GuardsElapsedTime(ps, elapsedTime) ==
    LET sta == ps.m_staticObjects
        inv == Reciprocal(elapsedTime)
    IN IF elapsedTime.num = 0 THEN ps
       ELSE [ ps EXCEPT
                !.bodies = [ e \in Entities |->
                               IF e \in sta
                               THEN SyncStaticBody(ps.bodies[e], ps.nodes[e], inv)
                               ELSE ps.bodies[e] ],
                !.upd.reciprocal = TRUE,
                !.upd.nodeReads = @ \cup sta,
                !.upd.bodyReads = @ \cup sta,
                !.upd.bodyWrites = @ \cup sta ]

\* The reciprocal and the second loop of OnUpdate, over m_staticObjects.
SyncStatic(ps, elapsedTime) ==
    LET sta == ps.m_staticObjects
        inv == Reciprocal(elapsedTime)
    IN [ ps EXCEPT
           !.bodies = [ e \in Entities |->
                          IF e \in sta
                          THEN SyncStaticBody(ps.bodies[e], ps.nodes[e], inv)
                          ELSE ps.bodies[e] ],
           !.upd.reciprocal = TRUE,
           !.upd.nodeReads = @ \cup sta,
           !.upd.bodyReads = @ \cup sta,
           !.upd.bodyWrites = @ \cup sta,
           !.upd.missing = @ \cup
               { e \in sta : ~HasComponent(ps, e, "NodeComponent")
                             \/ ~HasComponent(ps, e, "CollisionComponent3D") } ]

\* OnUpdate without the early return on a missing world.
OnUpdate_NoWorldCheck(ps, elapsedTime, pose) ==
    LET p0 == [ ps EXCEPT !.upd.called = TRUE, !.upd.elapsedTime = elapsedTime ]
        p1 == Step(p0, elapsedTime, pose)
        p2 == SyncStatic(SyncDynamic(p1), elapsedTime)
    IN IF p2.upd.missing = {} /\ ps.m_world
       THEN { p2 }
       ELSE { p2, [ p1 EXCEPT !.upd.missing = p2.upd.missing, !.upd.crashed = TRUE ] }

\* OnUpdate: nothing without a world; otherwise one step, then the two loops.
\* GetComponent on an entity that lacks the component is undefined: the tick
\* either stops the program or goes on with what the storage holds.
OnUpdate(ps, elapsedTime, pose) ==
    LET p0 == [ ps EXCEPT !.upd.called = TRUE, !.upd.elapsedTime = elapsedTime ]
        p1 == Step(p0, elapsedTime, pose)
        p2 == SyncStatic(SyncDynamic(p1), elapsedTime)
    IN IF ~ps.m_world
       THEN { p0 }
       ELSE IF p2.upd.missing = {}
       THEN { p2 }
       ELSE { p2, [ p1 EXCEPT !.upd.missing = p2.upd.missing, !.upd.crashed = TRUE ] }

\* PhysicsSystem3D(const PhysicsSystem3D&): the component sets are copied, the
\* copy has no world and empty lists; the model goes on with the copy, in a
\* world that queues every entity for validation against it.
CopySystem(ps) ==
    [ ps EXCEPT !.m_entities = {},
                !.m_dynamicObjects = {},
                !.m_staticObjects = {},
                !.m_world = FALSE,
                !.dirtyEntities = Entities,
                !.sys = [ NoSys EXCEPT !.op = "Copy" ] ]

\* ------------------------------------------------------------------ states
\* The statics before the first Initialize (zero- or default-initialized).
StaticState ==
    [ s_moduleReferenceCounter |-> 0,
      s_matrices |-> [ t \in MatrixTypeSet |->
          [ matrix |-> <<0, 0, 0, 0>>, sent |-> FALSE, updated |-> FALSE, location |-> 0 ] ],
      s_updateFlags |-> Update_None,
      s_shader |-> Null,
      s_vertexBuffer |-> Null,
      s_indexBuffer |-> Null,
      s_instancing |-> FALSE,
      s_currentVAO |-> Null,
      s_vaos |-> [ k \in {} |-> Null ],
      s_dirtyTextureUnits |-> {},
      s_textureUnits |-> [ i \in {} |-> DefaultTextureUnit ],
      s_states |-> DefaultRenderStates,
      s_capInstancing |-> FALSE,
      s_instancingBuffer |-> Null,
      s_fullscreenQuadBuffer |-> Null,
      s_useSamplerObjects |-> FALSE,
      s_useVertexArrayObjects |-> FALSE,
      s_target |-> Null,
      s_targetSize |-> 0,
      targets |-> NoTargets,
      currentContext |-> Null,
      gl |-> DeviceReset,
      crashed |-> FALSE,
      hist |-> NoHistory,
      esu |-> NoESU,
      call |-> Called("none", Null, TRUE) ]

Install(st) ==
    /\ s_moduleReferenceCounter = st.s_moduleReferenceCounter
    /\ s_matrices = st.s_matrices
    /\ s_updateFlags = st.s_updateFlags
    /\ s_shader = st.s_shader
    /\ s_vertexBuffer = st.s_vertexBuffer
    /\ s_indexBuffer = st.s_indexBuffer
    /\ s_instancing = st.s_instancing
    /\ s_currentVAO = st.s_currentVAO
    /\ s_vaos = st.s_vaos
    /\ s_dirtyTextureUnits = st.s_dirtyTextureUnits
    /\ s_textureUnits = st.s_textureUnits
    /\ s_states = st.s_states
    /\ s_capInstancing = st.s_capInstancing
    /\ s_instancingBuffer = st.s_instancingBuffer
    /\ s_fullscreenQuadBuffer = st.s_fullscreenQuadBuffer
    /\ s_useSamplerObjects = st.s_useSamplerObjects
    /\ s_useVertexArrayObjects = st.s_useVertexArrayObjects
    /\ s_target = st.s_target
    /\ s_targetSize = st.s_targetSize
    /\ targets = st.targets
    /\ currentContext = st.currentContext
    /\ gl = st.gl
    /\ crashed = st.crashed
    /\ hist = st.hist
    /\ esu = st.esu
    /\ call = st.call
    /\ InstallPhysics(NewWorld)

\* An OpenGL implementation with every extension the Renderer looks for, on
\* which Initialize succeeds.
FullSupport ==
    [ fail |-> "none", instancing |-> TRUE, bufferCreated |-> TRUE,
      samplerObjects |-> TRUE, vertexArrayObjects |-> TRUE ]

\* The callers keep to the module's contract: nothing but Initialize is called
\* on an uninitialized module, and a dead process calls nothing.
Running == ~crashed
Initialized == Running /\ s_moduleReferenceCounter > 0

\* The vertex-array cache is kept within MaxVAOs entries.
WithinCache(st) == Cardinality(DOMAIN st.s_vaos) <= MaxVAOs

\* ----------------------------------------------------------------- actions
CallSetLeafMatrix ==
    \E type \in LeafTypes, matrix \in MatrixInputs :
        Initialized /\ Commit(SetMatrix(Entry, type, matrix))

CallGetMatrix ==
    \E type \in MatrixTypeSet : Initialized /\ Commit(GetMatrix(Entry, type))

CallSetShader ==
    \E shader \in Shaders \cup {Null} : Initialized /\ Commit(SetShader(Entry, shader))

CallSetVertexBuffer ==
    \E vertexBuffer \in VertexBuffers :
        Initialized /\ Commit(SetVertexBuffer(Entry, vertexBuffer))

CallDrawPrimitives ==
    \E out \in DrawPrimitives(Entry) : Initialized /\ WithinCache(out) /\ Commit(out)

\* ------------------------------------------------- the matrix slots alone
\* An initialized Renderer with a shader and a vertex buffer set, whose callers
\* set leaf matrices, read matrices and draw.
InitMatrix ==
    \E shader \in Shaders, vertexBuffer \in VertexBuffers :
        Install(SetVertexBuffer(SetShader(Initialize(StaticState, FullSupport), shader),
                                vertexBuffer))

NextMatrix ==
    \/ CallSetLeafMatrix
    \/ CallGetMatrix
    \/ CallDrawPrimitives

SpecMatrix == InitMatrix /\ [][NextMatrix]_vars

\* ------------------------------------------- shader switches and matrices
\* An initialized Renderer whose callers switch shaders, set the vertex buffer,
\* set leaf matrices and draw.
InitShader == Install(Initialize(StaticState, FullSupport))

NextShader ==
    \/ CallSetShader
    \/ CallSetVertexBuffer
    \/ CallSetLeafMatrix
    \/ CallDrawPrimitives

SpecShader == InitShader /\ [][NextShader]_vars

\* ------------------------------------- lifecycle and vertex-array cache
\* The first Initialize, or the first one after a teardown.
CallInitialize ==
    /\ Running
    /\ s_moduleReferenceCounter = 0
    /\ Commit(Initialize(Entry, FullSupport))

CallUninitialize == Running /\ Commit(Uninitialize(Entry))

CallSetCurrentContext ==
    \E context \in Contexts :
        Initialized /\ context # currentContext /\ Commit(SetCurrentContext(Entry, context))

CallSetFirstShader == Initialized /\ Commit(SetShader(Entry, 1))

CallSetFirstVertexBuffer == Initialized /\ Commit(SetVertexBuffer(Entry, 1))

CallDrawPrimitivesInstanced ==
    \E out \in DrawPrimitivesInstanced(Entry, NAZARA_RENDERER_MAX_INSTANCES) :
        Initialized /\ WithinCache(out) /\ Commit(out)

\* The module from program start: initialized and torn down any number of
\* times, with callers that switch the active context, bind one shader, set
\* one vertex buffer and issue plain and instanced draws.
Init == Install(StaticState)

Next ==
    \/ CallInitialize
    \/ CallUninitialize
    \/ CallSetCurrentContext
    \/ CallSetFirstShader
    \/ CallSetFirstVertexBuffer
    \/ CallDrawPrimitives
    \/ CallDrawPrimitivesInstanced

Spec == Init /\ [][Next]_vars

\* ------------------------------------------------------ the draw entry points
CallSetIndexBuffer ==
    \E indexBuffer \in {Null, IndexBuffer} :
        Initialized /\ Commit(SetIndexBuffer(Entry, indexBuffer))

CallDrawFullscreenQuad ==
    \E out \in DrawFullscreenQuad(Entry) : Initialized /\ WithinCache(out) /\ Commit(out)

CallDrawIndexedPrimitives ==
    \E out \in DrawIndexedPrimitives(Entry) : Initialized /\ WithinCache(out) /\ Commit(out)

CallDrawIndexedPrimitivesInstanced ==
    \E out \in DrawIndexedPrimitivesInstanced(Entry, NAZARA_RENDERER_MAX_INSTANCES) :
        Initialized /\ WithinCache(out) /\ Commit(out)

\* An initialized Renderer in one context, whose callers bind a shader, a
\* vertex buffer and an index buffer and use the five draw entry points.
InitEntry == Install(Initialize(StaticState, FullSupport))

NextEntry ==
    \/ CallSetFirstShader
    \/ CallSetFirstVertexBuffer
    \/ CallSetIndexBuffer
    \/ CallDrawFullscreenQuad
    \/ CallDrawIndexedPrimitives
    \/ CallDrawIndexedPrimitivesInstanced
    \/ CallDrawPrimitives
    \/ CallDrawPrimitivesInstanced

SpecEntry == InitEntry /\ [][NextEntry]_vars

\* ------------------------------------------------ deferred state and draws
SamplerInputs == { [ config |-> 1, mipmaps |-> TRUE ] }

CallSetTexture ==
    \E unit \in TextureUnitIds, texture \in Textures \cup {Null} :
        Initialized /\ Commit(SetTexture(Entry, unit, texture))

CallSetTextureSampler ==
    \E unit \in TextureUnitIds, sampler \in SamplerInputs :
        Initialized /\ Commit(SetTextureSampler(Entry, unit, sampler))

CallEnable ==
    \E parameter \in RendererParameters, enable \in BOOLEAN :
        Initialized /\ Commit(Enable(Entry, parameter, enable))

CallSetWorldMatrix ==
    \E matrix \in MatrixInputs :
        Initialized /\ Commit(SetMatrix(Entry, "World", matrix))

\* An initialized Renderer in one context, whose callers use the deferred
\* setters (shader, textures, samplers, matrices, vertex buffer, render states)
\* and draw.
InitDraw == Install(Initialize(StaticState, FullSupport))

NextDraw ==
    \/ CallSetFirstShader
    \/ CallSetFirstVertexBuffer
    \/ CallSetTexture
    \/ CallSetTextureSampler
    \/ CallSetWorldMatrix
    \/ CallEnable
    \/ CallDrawPrimitives

SpecDraw == InitDraw /\ [][NextDraw]_vars

\* ------------------------------------------------------------ render targets
CallSetTarget ==
    \E target \in Targets \cup {Null}, renderable \in BOOLEAN, activates \in BOOLEAN :
        Initialized /\ Commit(SetTarget(Entry, target, renderable, activates))

CallResizeTarget ==
    \E target \in Targets, size \in Sizes :
        Initialized /\ targets.size[target] # size /\ Commit(ResizeTarget(Entry, target, size))

\* An initialized Renderer whose callers switch render targets that may refuse
\* to render or to activate, while the application resizes them.
InitTarget == Install(Initialize(StaticState, FullSupport))

NextTarget ==
    \/ CallSetTarget
    \/ CallResizeTarget

SpecTarget == InitTarget /\ [][NextTarget]_vars

\* ------------------------------------------------- the module's life cycle
\* The ways Initialize can go on a machine with every extension: success, or a
\* failure at any of the places it tests.
LifecycleConfigs ==
    { [ FullSupport EXCEPT !.fail = f ] : f \in {"none"} \cup EarlyFailures \cup LateFailures }

CallInitializeMaybe ==
    \E cfg \in LifecycleConfigs :
        /\ Running
        /\ s_moduleReferenceCounter < MaxReferences
        /\ Commit(Initialize(Entry, cfg))

\* The module from program start, initialized (with or without success) and
\* torn down any number of times by several users, with callers that bind a
\* shader and a vertex buffer, set textures and draw whenever IsInitialized()
\* is true.
NextLifecycle ==
    \/ CallInitializeMaybe
    \/ CallUninitialize
    \/ CallSetFirstShader
    \/ CallSetFirstVertexBuffer
    \/ CallSetTexture
    \/ CallDrawPrimitives

SpecLifecycle == Init /\ [][NextLifecycle]_vars

\* ------------------------------------------------- viewport and scissor
CallSetViewport ==
    \E viewport \in Rects :
        \E out \in SetViewport(Entry, viewport) : Initialized /\ Commit(out)

CallSetScissorRect ==
    \E rect \in Rects :
        \E out \in SetScissorRect(Entry, rect) : Initialized /\ Commit(out)

\* An initialized Renderer whose callers switch render targets, set viewports
\* and scissor rectangles, while the application resizes the targets.
InitViewport == Install(Initialize(StaticState, FullSupport))

NextViewport ==
    \/ CallSetTarget
    \/ CallResizeTarget
    \/ CallSetViewport
    \/ CallSetScissorRect

SpecViewport == InitViewport /\ [][NextViewport]_vars

\* ------------------------------------------------------------ texture units
\* Unit indices the callers pass: the valid ones and the first one out of range.
AnyUnitIds == 0..NumTextureUnits

CallSetAnyTexture ==
    \E unit \in AnyUnitIds, texture \in Textures \cup {Null} :
        Initialized /\ Commit(SetTexture(Entry, unit, texture))

CallSetAnyTextureSampler ==
    \E unit \in AnyUnitIds, sampler \in SamplerInputs :
        Initialized /\ Commit(SetTextureSampler(Entry, unit, sampler))

\* An initialized Renderer with a shader and a vertex buffer set, whose callers
\* set textures and samplers on valid and invalid units and draw.
InitUnits ==
    Install(SetVertexBuffer(SetShader(Initialize(StaticState, FullSupport), 1), 1))

NextUnits ==
    \/ CallSetAnyTexture
    \/ CallSetAnyTextureSampler
    \/ CallDrawPrimitives

SpecUnits == InitUnits /\ [][NextUnits]_vars

\* ------------------------------------------------------------ buffer storage
CallSetAnyVertexBuffer ==
    \E vertexBuffer \in VertexBuffers \cup {SoftwareVertexBuffer, Null} :
        Initialized /\ Commit(SetVertexBuffer(Entry, vertexBuffer))

CallSetAnyIndexBuffer ==
    \E indexBuffer \in {Null, IndexBuffer, SequentialIndexBuffer, SoftwareIndexBuffer} :
        Initialized /\ Commit(SetIndexBuffer(Entry, indexBuffer))

\* An initialized Renderer with a shader set, whose callers pass buffers of
\* every storage kind and draw.
InitBuffers == Install(SetShader(Initialize(StaticState, FullSupport), 1))

NextBuffers ==
    \/ CallSetAnyVertexBuffer
    \/ CallSetAnyIndexBuffer
    \/ CallDrawPrimitives
    \/ CallDrawFullscreenQuad

SpecBuffers == InitBuffers /\ [][NextBuffers]_vars

\* ------------------------------------------------- setters given the cached value
CallSetFirstOrNoVertexBuffer ==
    \E vertexBuffer \in {Null, 1} :
        Initialized /\ Commit(SetVertexBuffer(Entry, vertexBuffer))

CallSetFirstUnitTexture ==
    \E texture \in {Null, 1} : Initialized /\ Commit(SetTexture(Entry, 0, texture))

\* An initialized Renderer whose callers set a shader, a vertex buffer or none,
\* an index buffer or none and the texture of the first unit, and issue plain
\* and instanced draws.
InitSetters == Install(Initialize(StaticState, FullSupport))

NextSetters ==
    \/ CallSetFirstShader
    \/ CallSetFirstOrNoVertexBuffer
    \/ CallSetIndexBuffer
    \/ CallSetFirstUnitTexture
    \/ CallDrawPrimitives
    \/ CallDrawPrimitivesInstanced

SpecSetters == InitSetters /\ [][NextSetters]_vars

\* ------------------------------------------------- instancing capability
\* The ways Initialize can go: the utility module may fail to initialize, the
\* instancing extensions may be missing, the instancing buffer may fail to be
\* created.
InstancingConfigs ==
    [ fail : {"none", "utility"}, instancing : BOOLEAN, bufferCreated : BOOLEAN,
      samplerObjects : {TRUE}, vertexArrayObjects : {TRUE} ]

CallInitializeAny ==
    \E cfg \in InstancingConfigs :
        /\ Running
        /\ s_moduleReferenceCounter < MaxReferences
        /\ Commit(Initialize(Entry, cfg))

CallSetInstancingData ==
    \E hasData \in BOOLEAN, instanceCount \in 0..(NAZARA_RENDERER_MAX_INSTANCES + 1) :
        \E out \in SetInstancingData(Entry, hasData, instanceCount) :
            Initialized /\ Commit(out)

CallDrawAnyPrimitivesInstanced ==
    \E instanceCount \in 0..(NAZARA_RENDERER_MAX_INSTANCES + 1) :
        \E out \in DrawPrimitivesInstanced(Entry, instanceCount) :
            Initialized /\ WithinCache(out) /\ Commit(out)

\* The module from program start, initialized (with or without success, with
\* or without instancing) and torn down any number of times, with callers that
\* use the instancing entry points whenever IsInitialized() is true.
NextInstancing ==
    \/ CallInitializeAny
    \/ CallUninitialize
    \/ CallSetFirstShader
    \/ CallSetFirstVertexBuffer
    \/ CallSetInstancingData
    \/ CallDrawAnyPrimitivesInstanced

SpecInstancing == Init /\ [][NextInstancing]_vars

\* ------------------------------------------------------------ render states
RenderStatesInputs == [ parameters : [ RendererParameters -> BOOLEAN ] ]

CallSetRenderStates ==
    \E states \in RenderStatesInputs : Running /\ Commit(SetRenderStates(Entry, states))

CallGetRenderStates == Running /\ Commit(GetRenderStates(Entry))

CallEnableAnytime ==
    \E parameter \in RendererParameters, enable \in BOOLEAN :
        Running /\ Commit(Enable(Entry, parameter, enable))

\* The module from program start, initialized and torn down any number of
\* times, with callers that use the render-state accessors at any time and
\* draw while the module is initialized.
NextStates ==
    \/ CallInitialize
    \/ CallUninitialize
    \/ CallSetRenderStates
    \/ CallGetRenderStates
    \/ CallEnableAnytime
    \/ CallSetFirstShader
    \/ CallSetFirstVertexBuffer
    \/ CallDrawPrimitives

SpecStates == Init /\ [][NextStates]_vars

\* ----------------------------------------------------- the entity world
CallAddComponent ==
    \E entity \in Entities, component \in ComponentTypes :
        /\ component \notin components[entity]
        /\ CommitPhysics(AddComponent(PhysEntry("AddComponent", entity), entity, component))

CallRemoveComponent ==
    \E entity \in Entities, component \in ComponentTypes :
        /\ component \in components[entity]
        /\ CommitPhysics(RemoveComponent(PhysEntry("RemoveComponent", entity), entity, component))

CallValidateEntity ==
    \E entity \in dirtyEntities :
        CommitPhysics(ValidateEntity(PhysEntry("ValidateEntity", entity), entity))

CallCopySystem ==
    /\ sys.op # "Copy"
    /\ CommitPhysics(CopySystem(PhysEntry("Copy", Null)))

\* A world with a PhysicsSystem3D: components are added to and removed from its
\* entities, the world re-validates the queued entities, the system is copied.
NextPhysics ==
    \/ CallAddComponent
    \/ CallRemoveComponent
    \/ CallValidateEntity
    \/ CallCopySystem

SpecPhysics == Init /\ [][NextPhysics]_vars

\* ---------------------------------------------------- the matrix pass alone
\* An initialized Renderer with a vertex buffer set, whose callers switch
\* shaders, set leaf matrices and draw.
InitLocations == Install(SetVertexBuffer(Initialize(StaticState, FullSupport), 1))

NextLocations ==
    \/ CallSetShader
    \/ CallSetLeafMatrix
    \/ CallDrawPrimitives

SpecLocations == InitLocations /\ [][NextLocations]_vars

\* ------------------------------------------------ the update flags at a draw
VertexArrayConfigs == { [ FullSupport EXCEPT !.vertexArrayObjects = vao ] : vao \in BOOLEAN }

\* An initialized Renderer, with or without vertex-array objects, with a shader
\* and a vertex buffer set, whose callers set textures and the world matrix,
\* and draw.
InitFlags ==
    \E cfg \in VertexArrayConfigs :
        Install(SetVertexBuffer(SetShader(Initialize(StaticState, cfg), 1), 1))

NextFlags ==
    \/ CallSetTexture
    \/ CallSetWorldMatrix
    \/ CallDrawPrimitives

SpecFlags == InitFlags /\ [][NextFlags]_vars

\* --------------------------------------------------- the texture pass alone
SamplerObjectConfigs == { [ FullSupport EXCEPT !.samplerObjects = so ] : so \in BOOLEAN }

\* An initialized Renderer, with or without sampler objects, with a shader and
\* a vertex buffer set, whose callers set textures and samplers, change the
\* world matrix and draw.
InitTextures ==
    \E cfg \in SamplerObjectConfigs :
        Install(SetVertexBuffer(SetShader(Initialize(StaticState, cfg), 1), 1))

NextTextures ==
    \/ CallSetTexture
    \/ CallSetTextureSampler
    \/ CallSetWorldMatrix
    \/ CallDrawPrimitives

SpecTextures == InitTextures /\ [][NextTextures]_vars

\* ------------------------------------------------- physics synchronisation
\* The entity the synchronisation is followed on: each iteration of the loops
\* of OnUpdate touches the node and the body of its own entity only.
FirstEntity == CHOOSE e \in Entities : \A o \in Entities : e <= o

\* The components PhysicsSystem3D::OnUpdate looks up.
SyncComponentTypes == { "NodeComponent", "CollisionComponent3D", "PhysicsComponent3D" }

CallAddFirstComponent ==
    \E component \in SyncComponentTypes :
        /\ ~upd.crashed
        /\ component \notin components[FirstEntity]
        /\ CommitPhysics(AddComponent(PhysEntry("AddComponent", FirstEntity),
                                      FirstEntity, component))

CallRemoveFirstComponent ==
    \E component \in SyncComponentTypes :
        /\ ~upd.crashed
        /\ component \in components[FirstEntity]
        /\ CommitPhysics(RemoveComponent(PhysEntry("RemoveComponent", FirstEntity),
                                         FirstEntity, component))

CallValidateFirstEntity ==
    /\ ~upd.crashed
    /\ FirstEntity \in dirtyEntities
    /\ CommitPhysics(ValidateEntity(PhysEntry("ValidateEntity", FirstEntity), FirstEntity))

CallMoveNode ==
    \E pose \in Poses :
        /\ ~upd.crashed
        /\ "NodeComponent" \in components[FirstEntity]
        /\ pose # nodes[FirstEntity]
        /\ CommitPhysics(MoveNode(PhysEntry("MoveNode", FirstEntity), FirstEntity, pose))

\* World::Update: the queued entities have been validated when the systems
\* are updated.
CallOnUpdate ==
    \E elapsedTime \in ElapsedTimes, pose \in Poses :
        /\ ~upd.crashed
        /\ dirtyEntities = {}
        /\ \E ps \in OnUpdate(PhysEntry("OnUpdate", Null), elapsedTime, pose) :
              CommitPhysics(ps)

NextSync ==
    \/ CallAddFirstComponent
    \/ CallRemoveFirstComponent
    \/ CallValidateFirstEntity
    \/ CallMoveNode
    \/ CallOnUpdate

SpecSync == Init /\ [][NextSync]_vars

\* ================================================================== claims
\* The value each composite slot has when it is derived from the leaf values
\* the slots hold now.
Derived(type) ==
    CASE type = "ViewProj" ->
            Concatenate(s_matrices["View"].matrix, s_matrices["Projection"].matrix)
      [] type = "WorldView" ->
            ConcatenateAffine(s_matrices["World"].matrix, s_matrices["View"].matrix)
      [] type = "WorldViewProj" ->
            Concatenate(ConcatenateAffine(s_matrices["World"].matrix, s_matrices["View"].matrix),
                        s_matrices["Projection"].matrix)

\* C1: after any sequence of SetMatrix calls on the leaf slots, interleaved with
\* GetMatrix and EnsureStateUpdate, GetMatrix on each composite slot returns the
\* value derived from the most recently set leaf values.
C1_CompositeReadsAreFresh ==
    Initialized => \A c \in CompositeTypes : GetMatrixValue(Snapshot, c) = Derived(c)

\* The leaf slots each composite depends on, directly or through WorldView.
DependsOn(type) ==
    CASE type = "ViewProj" -> {"View", "Projection"}
      [] type = "WorldView" -> {"World", "View"}
      [] type = "WorldViewProj" -> {"World", "View", "Projection"}

\* C2: right after SetMatrix changed a slot every composite depending on it has
\* updated = FALSE, and in every state a composite with updated = TRUE holds the
\* value derived from the slots it depends on.
C2_UpdatedMeansConsistent ==
    /\ call.op = "SetMatrix" =>
          \A c \in CompositeTypes : call.arg \in DependsOn(c) => ~s_matrices[c].updated
    /\ Initialized =>
          \A c \in CompositeTypes : s_matrices[c].updated => s_matrices[c].matrix = Derived(c)

\* The table of the claim: the slots a leaf invalidates.
ListedInvalidations(type) ==
    CASE type = "Projection" -> {"ViewProj", "WorldViewProj"}
      [] type = "View" -> {"ViewProj", "World", "WorldViewProj"}
      [] type = "World" -> {"WorldView", "WorldViewProj"}

\* C3: SetMatrix on a leaf clears updated on exactly the listed slots
\* (Projection: ViewProj, WorldViewProj; View: ViewProj, World, WorldViewProj;
\* World: WorldView, WorldViewProj), sets updated on the slot it sets, and leaves
\* everything else of every slot as it was.
C3_SetMatrixFrame ==
    [][ call'.op = "SetMatrix" =>
          LET type == call'.arg
          IN /\ s_matrices'[type].updated
             /\ s_matrices'[type].sent = s_matrices[type].sent
             /\ s_matrices'[type].location = s_matrices[type].location
             /\ \A t \in ListedInvalidations(type) :
                   s_matrices'[t] = [ s_matrices[t] EXCEPT !.updated = FALSE ]
             /\ \A t \in MatrixTypeSet \ (ListedInvalidations(type) \cup {type}) :
                   s_matrices'[t] = s_matrices[t] ]_vars

\* SetMatrix(View) has just cleared World's flag and left WorldView's set.
C3_Witness ==
    /\ call.op = "SetMatrix" /\ call.arg = "View"
    /\ ~s_matrices["World"].updated
    /\ s_matrices["WorldView"].updated
    /\ s_matrices["View"].matrix = MatA

\* C4: between two consecutive SetMatrix calls each composite slot is recomputed
\* at most once, however many GetMatrix reads and EnsureStateUpdate passes occur.
C4_RecomputedAtMostOnce ==
    \A c \in CompositeTypes : hist.recomputed[c] <= 1

\* A GetMatrix(WorldViewProj) that reused the value recomputed earlier in the
\* same batch, after a draw went through as well.
C4_Witness ==
    /\ call.op = "GetMatrix" /\ call.arg = "WorldViewProj" /\ ~call.ok
    /\ hist.recomputed["WorldViewProj"] = 1
    /\ hist.recomputed["WorldView"] = 1
    /\ s_matrices["WorldViewProj"].sent

C6_SameTupleSameHandle ==
    esu.called /\ esu.result /\ esu.firstHandle # Null =>
        esu.handle = esu.firstHandle /\ esu.attribCalls = 0

\* Between Initialize and the final Uninitialize the cache only grows, keeps
\* every handle it stores, and gains exactly one entry per cache miss.
CacheOnlyGrows ==
    [][ s_moduleReferenceCounter > 0 /\ s_moduleReferenceCounter' > 0 =>
          /\ \A k \in DOMAIN s_vaos : k \in DOMAIN s_vaos' /\ s_vaos'[k] = s_vaos[k]
          /\ Cardinality(DOMAIN s_vaos') =
                Cardinality(DOMAIN s_vaos) + (IF esu'.lookup = "miss" THEN 1 ELSE 0) ]_vars

C8_TeardownEmptiesCache ==
    s_moduleReferenceCounter = 0 => DOMAIN s_vaos = {}

\* C9: a draw entry point submits its draw command only if it ran
\* EnsureStateUpdate in the same invocation, EnsureStateUpdate returned true and
\* nothing changed the cached bindings between its return and the submission;
\* when EnsureStateUpdate returned false no draw command is submitted.
C9_DrawOnlyAfterEnsure ==
    /\ call.submitted =>
          /\ esu.called /\ esu.result
          /\ esu.after = << s_shader, s_vertexBuffer, s_indexBuffer, s_instancing,
                            s_updateFlags >>
    /\ esu.called /\ ~esu.result => ~call.submitted

\* An indexed instanced draw was submitted after EnsureStateUpdate returned
\* true with the instancing layout and the index buffer bound.
C9_Witness ==
    /\ call.op = "DrawIndexedPrimitivesInstanced" /\ call.submitted
    /\ esu.called /\ esu.result /\ s_instancing /\ s_indexBuffer = IndexBuffer

\* C10: when a draw command is submitted the device holds the cached state: the
\* program in use is the last shader set, every texture unit has the last
\* texture given to SetTexture bound (none after SetTexture(unit, null)), every
\* slot with a location has its current value in the shader, and the applied
\* render states are the cached ones.
C10_DeviceEqualsCacheAtDraw ==
    call.submitted =>
        /\ gl.program = s_shader
        /\ \A i \in DOMAIN s_textureUnits : gl.textures[i] = s_textureUnits[i].texture
        /\ \A t \in MatrixTypeSet :
              s_matrices[t].location # NoLocation => gl.uniforms[t] = s_matrices[t].matrix
        /\ gl.states = s_states

\* The cached Renderer state a rejected call must leave alone.
CachedState ==
    << s_shader, s_vertexBuffer, s_indexBuffer, s_instancing, s_updateFlags,
       s_matrices, s_textureUnits, s_dirtyTextureUnits, s_vaos >>

DrawOps ==
    { "DrawFullscreenQuad", "DrawIndexedPrimitives", "DrawIndexedPrimitivesInstanced",
      "DrawPrimitives", "DrawPrimitivesInstanced" }

\* C11: a draw entry point call that fails a precondition submits no draw and
\* leaves the whole cached Renderer state (shader, buffer bindings, instancing
\* flag, update flags, matrix slots, texture units and pending set, vertex-array
\* cache) exactly as it was before the call.
C11_FailedDrawIsNoOp ==
    [][ call'.op \in DrawOps /\ ~call'.submitted => CachedState' = CachedState ]_vars

\* C12: when SetTarget fails it returns false and the cached state is as before
\* the call: the previously bound target is still current, it has not been
\* deactivated, and the cached target size is unchanged.
C12_FailedSetTargetIsNoOp ==
    [][ call'.op = "SetTarget" /\ ~call'.ok =>
          /\ s_target' = s_target
          /\ s_targetSize' = s_targetSize
          /\ targets'.active = targets.active ]_vars

\* C13: SetTarget with the target that is already current returns success and
\* changes nothing: no call is made on a target (no deactivation, activation or
\* size read) and the cached target and size stay, however often it is repeated.
C13_SameTargetIsIdempotent ==
    [][ call'.op = "SetTarget" /\ call'.arg = s_target =>
          /\ call'.ok
          /\ call'.targetCalls = <<>>
          /\ s_target' = s_target
          /\ s_targetSize' = s_targetSize
          /\ targets' = targets ]_vars

\* SetTarget has just been called with the current target, a render texture
\* whose size changed since it was bound: the cached size is the old one.
C13_Witness ==
    /\ call.op = "SetTarget" /\ call.arg = s_target /\ call.targetCalls = <<>>
    /\ s_target # Null /\ ~HasContext(s_target)
    /\ s_target \in targets.active
    /\ s_targetSize # targets.size[s_target]

\* C14: SetTexture and SetTextureSampler with a unit index at or beyond the
\* number of texture units report an error and change nothing: no unit's
\* texture, sampler or flags, not the pending set, not Update_Textures.
C14_OutOfRangeUnitIgnored ==
    [][ call'.op \in {"SetTexture", "SetTextureSampler"}
        /\ call'.arg \notin DOMAIN s_textureUnits =>
          /\ ~call'.ok
          /\ s_textureUnits' = s_textureUnits
          /\ s_dirtyTextureUnits' = s_dirtyTextureUnits
          /\ s_updateFlags' = s_updateFlags ]_vars

\* SetTextureSampler on the first invalid unit was rejected while a texture is
\* bound to a valid unit and nothing is pending.
C14_Witness ==
    /\ call.op = "SetTextureSampler" /\ call.arg = NumTextureUnits /\ ~call.ok
    /\ s_dirtyTextureUnits = {} /\ Update_Textures \notin s_updateFlags
    /\ \E i \in DOMAIN s_textureUnits : s_textureUnits[i].texture # Null

\* C15: the cached vertex buffer is always null or device-resident and the
\* cached index buffer always null, sequential or device-resident; a
\* SetVertexBuffer with a non-hardware buffer and a SetIndexBuffer with a
\* non-sequential non-hardware buffer leave the bindings and Update_VAO alone.
C15_BuffersAreDeviceResident ==
    /\ [](Initialized =>
            /\ s_vertexBuffer = Null \/ IsHardwareVertexBuffer(s_vertexBuffer)
            /\ \/ s_indexBuffer = Null
               \/ IsSequential(s_indexBuffer)
               \/ IsHardwareIndexBuffer(s_indexBuffer))
    /\ [][ \/ call'.op = "SetVertexBuffer" /\ call'.arg = SoftwareVertexBuffer
           \/ call'.op = "SetIndexBuffer" /\ call'.arg = SoftwareIndexBuffer
           => /\ s_vertexBuffer' = s_vertexBuffer
              /\ s_indexBuffer' = s_indexBuffer
              /\ s_updateFlags' = s_updateFlags ]_vars

\* A software vertex buffer was rejected while a hardware vertex buffer and a
\* sequential index buffer stay bound and the vertex-array layout is clean.
C15_Witness ==
    /\ call.op = "SetVertexBuffer" /\ call.arg = SoftwareVertexBuffer
    /\ s_vertexBuffer \in VertexBuffers
    /\ s_indexBuffer = SequentialIndexBuffer
    /\ Update_VAO \notin s_updateFlags

\* C16: in every initialized state the instancing capability implies that the
\* instancing buffer exists, so that no SetInstancingData call and no instanced
\* attribute specification ever goes through an absent instancing buffer.
C16_InstancingNeedsBuffer ==
    /\ Initialized => (s_capInstancing => s_instancingBuffer # Null)
    /\ ~call.derefNull
    /\ esu.called /\ esu.attribCalls = 2 => s_instancingBuffer # Null

RenderStateOps == { "Enable", "SetRenderStates", "GetRenderStates" }

\* C17: a render-state setter or reader invoked while the module reference
\* counter is 0 does not access the render-state record: the record is not read
\* before Initialize and not written after the final Uninitialize.
C17_NoStateAccessWhileUninitialized ==
    /\ [](s_moduleReferenceCounter = 0 /\ call.op \in RenderStateOps =>
            call.statesAccess = "none")
    /\ [][ s_moduleReferenceCounter = 0 /\ s_moduleReferenceCounter' = 0 =>
             s_states' = s_states ]_vars

\* The membership predicate of the claim, for a component set.
Qualifies(comps) ==
    /\ "NodeComponent" \in comps
    /\ {"CollisionComponent3D", "PhysicsComponent3D"} \cap comps # {}
    /\ "PhysicsComponent2D" \notin comps

C19_ExactlyOnePartition ==
    /\ m_dynamicObjects \cap m_staticObjects = {}
    /\ \A e \in m_entities :
          e \notin dirtyEntities =>
              /\ e \in m_dynamicObjects <=> "PhysicsComponent3D" \in components[e]
              /\ e \in m_staticObjects <=> "PhysicsComponent3D" \notin components[e]

\* C20: the physics world is absent from construction or copy construction
\* until OnEntityValidation first runs on the system, is created in that call,
\* and CreatePhysWorld never runs while a world exists, so one system creates
\* at most one world.
C20_WorldCreatedLazilyOnce ==
    /\ m_world <=> sys.validated
    /\ ~sys.assertFailed
    /\ sys.created = (IF m_world THEN 1 ELSE 0)
    /\ sys.createdNow => sys.op = "ValidateEntity" /\ sys.entity \in m_entities
    /\ sys.op = "Copy" => ~m_world

\* OnEntityValidation has just run on a system that already had its world, and
\* created none.
C20_Witness ==
    /\ sys.op = "ValidateEntity" /\ sys.entity \in m_entities
    /\ ~sys.justAdded /\ ~sys.createdNow
    /\ m_world /\ sys.created = 1

\* C21: OnUpdate without a physics world does nothing, for every elapsed time:
\* no step, no node or body read or written, no reciprocal taken, and the
\* nodes and bodies are as before.
C21_NoWorldNoOp ==
    [][ (upd'.called /\ ~m_world) =>
            /\ upd'.steps = 0 /\ ~upd'.reciprocal /\ ~upd'.crashed
            /\ upd'.nodeReads = {} /\ upd'.nodeWrites = {}
            /\ upd'.bodyReads = {} /\ upd'.bodyWrites = {}
            /\ nodes' = nodes /\ bodies' = bodies /\ ~m_world' ]_vars

\* OnUpdate has run with elapsed time 0 on a system without a world, in a
\* world where the node of an entity was moved.
C21_Witness ==
    /\ upd.called /\ ~m_world /\ upd.elapsedTime.num = 0
    /\ \E e \in Entities : nodes[e] # Origin

\* C22: an OnUpdate with a world steps it exactly once, before any transform
\* is synchronized; afterwards the node of every entity of the dynamic set has
\* the position and rotation its rigid body had after the step, and that body
\* is as the step left it.
C22_DynamicNodesFollowBodies ==
    [][ (upd'.called /\ m_world) =>
            /\ upd'.steps = 1 /\ ~upd'.syncBeforeStep
            /\ \A e \in m_dynamicObjects :
                  /\ nodes'[e].position = upd'.stepped[e].position
                  /\ nodes'[e].rotation = upd'.stepped[e].rotation
                  /\ bodies'[e] = upd'.stepped[e]
                  /\ e \notin upd'.bodyWrites ]_vars

\* C23: an OnUpdate with elapsed time dt > 0 leaves the body of every entity of
\* the static set at the node's position, with linear velocity (node position -
\* old body position) / dt when the two differed and zero when they did not,
\* and never writes the node of such an entity.
C23_StaticBodiesFollowNodes ==
    [][ (upd'.called /\ m_world /\ upd'.elapsedTime.num # 0) =>
            \A e \in m_staticObjects :
                LET old == upd'.stepped[e]
                    dt == upd'.elapsedTime
                IN /\ nodes'[e] = nodes[e] /\ e \notin upd'.nodeWrites
                   /\ bodies'[e].position = nodes[e].position
                   /\ bodies'[e].velocity.finite
                   /\ bodies'[e].velocity.value * dt.num =
                          (nodes[e].position - old.position) * dt.den ]_vars

\* C24: an entity that was validated out of PhysicsSystem3D is in neither the
\* dynamic nor the static list, and OnUpdate does not read or write its node or
\* its body.
C24_NonMembersAreInNoList ==
    \A e \in Entities :
        (e \notin dirtyEntities /\ e \notin m_entities) =>
            /\ e \notin m_dynamicObjects \cup m_staticObjects
            /\ upd.called =>
                  e \notin upd.nodeReads \cup upd.nodeWrites \cup upd.bodyReads \cup upd.bodyWrites

\* The flags of the matrix slots and of the texture units.
MatrixFlags(m) ==
    [ t \in MatrixTypeSet |->
        [ location |-> m[t].location, sent |-> m[t].sent, updated |-> m[t].updated ] ]

TextureFlags(u) ==
    [ i \in DOMAIN u |->
        [ textureUpdated |-> u[i].textureUpdated, samplerUpdated |-> u[i].samplerUpdated ] ]

\* C25: an EnsureStateUpdate that returns false leaves the update flags, the
\* flags and locations of the matrix slots, the flags of the texture units,
\* the pending units, the current vertex array and the cache as they were.
C25_FailedEnsureCommitsNothing ==
    [][ (esu'.called /\ ~esu'.result /\ ~crashed' /\ ~s_instancing) =>
            /\ s_updateFlags' = s_updateFlags
            /\ MatrixFlags(s_matrices') = MatrixFlags(s_matrices)
            /\ TextureFlags(s_textureUnits') = TextureFlags(s_textureUnits)
            /\ s_dirtyTextureUnits' = s_dirtyTextureUnits
            /\ s_currentVAO' = s_currentVAO
            /\ s_vaos' = s_vaos ]_vars

\* C26: with vertex-array support, the handle a successful EnsureStateUpdate
\* has bound is the one the cache holds under (active context, index buffer,
\* vertex buffer, instancing flag).
C26_BoundHandleIsCachedForContext ==
    (esu.called /\ esu.result /\ ~crashed /\ s_useVertexArrayObjects) =>
        /\ VAO_Key(Snapshot) \in DOMAIN s_vaos
        /\ esu.handle = s_vaos[VAO_Key(Snapshot)]

\* C27: an EnsureStateUpdate with textures dirty visits the pending units only,
\* binds the texture of a visited unit iff its textureUpdated flag was false
\* and its sampler iff its samplerUpdated flag was false, with and without
\* sampler objects, and leaves both flags true, no unit pending and
\* Update_Textures cleared.
C27_TexturePassFollowsFlags ==
    [][ (esu'.called /\ esu'.reached /\ Update_Textures \in s_updateFlags) =>
            /\ esu'.visited = s_dirtyTextureUnits
            /\ \A i \in s_dirtyTextureUnits :
                  /\ i \in esu'.textureBinds <=> ~s_textureUnits[i].textureUpdated
                  /\ i \in esu'.samplerBinds <=> ~s_textureUnits[i].samplerUpdated
                  /\ s_textureUnits'[i].textureUpdated /\ s_textureUnits'[i].samplerUpdated
            /\ s_dirtyTextureUnits' = {}
            /\ Update_Textures \notin s_updateFlags'
            /\ ~crashed' ]_vars

\* C28: no EnsureStateUpdate binds, or applies a sampler through, the texture
\* of a pending unit whose cached texture is null.
C28_NoBindThroughNullTexture ==
    esu.called =>
        /\ ~esu.nullBind
        /\ \A i \in esu.textureBinds \cup esu.samplerBinds :
              s_useSamplerObjects \/ s_textureUnits[i].texture # Null

\* The matrix pass of an EnsureStateUpdate runs when it gets past the shader
\* check with a shader change or a matrix change pending.
MatrixPassRuns ==
    /\ esu'.called /\ esu'.reached
    /\ s_updateFlags \cap {Update_Shader, Update_Matrices} # {}

\* The sent flag of a slot the matrix pass does not touch: cleared by the
\* shader block when the shader changed, else as before.
UntouchedSent(t) == IF Update_Shader \in s_updateFlags THEN FALSE ELSE s_matrices[t].sent

\* C29 as stated: in a matrix pass a slot with a location is recomputed when
\* stale, sent once and marked sent; a slot without a location is not
\* recomputed, not sent and not marked sent; Update_Matrices is cleared.
C29_OnlyLocatedSlotsAreProcessed ==
    [][ MatrixPassRuns =>
            /\ Update_Matrices \notin s_updateFlags'
            /\ \A t \in MatrixTypeSet :
                  IF s_matrices'[t].location # NoLocation
                  THEN /\ esu'.sends[t] = 1 /\ s_matrices'[t].sent
                       /\ (t \in CompositeTypes /\ ~s_matrices[t].updated)
                              => t \in esu'.recomputed
                  ELSE /\ esu'.sends[t] = 0
                       /\ s_matrices'[t].sent = UntouchedSent(t)
                       /\ t \notin esu'.recomputed ]_vars

\* C29 as amended: the same, except that WorldView without a location is
\* recomputed when it is stale and WorldViewProj, which has a location, is
\* recomputed; no other slot without a location is recomputed.
C29_UnlocatedSlotsAreNotSent ==
    [][ MatrixPassRuns =>
            /\ Update_Matrices \notin s_updateFlags'
            /\ \A t \in MatrixTypeSet :
                  IF s_matrices'[t].location # NoLocation
                  THEN /\ esu'.sends[t] = 1 /\ s_matrices'[t].sent
                       /\ (t \in CompositeTypes /\ ~s_matrices[t].updated)
                              => t \in esu'.recomputed
                  ELSE /\ esu'.sends[t] = 0
                       /\ s_matrices'[t].sent = UntouchedSent(t)
                       /\ t \in esu'.recomputed <=>
                              /\ t = "WorldView" /\ ~s_matrices["WorldView"].updated
                              /\ "WorldViewProj" \in esu'.recomputed ]_vars

\* A draw with shader 2, which declares WorldViewProj and not WorldView, after
\* the world matrix changed: WorldView was recomputed and not sent.
C29_Witness ==
    /\ esu.called /\ esu.result /\ s_shader = 2
    /\ s_matrices["WorldView"].location = NoLocation
    /\ esu.recomputed = {"WorldView", "WorldViewProj"}
    /\ esu.sends["WorldView"] = 0 /\ esu.sends["WorldViewProj"] = 1
    /\ ~s_matrices["WorldView"].sent

\* C30: in every state a slot whose sent flag is set has its current value in
\* the bound shader: the shader in use is s_shader and the value last pushed
\* for the slot is the slot's matrix.
C30_SentMeansInShader ==
    \A t \in MatrixTypeSet :
        s_matrices[t].sent =>
            /\ gl.program = s_shader
            /\ gl.uniforms[t] = s_matrices[t].matrix

\* What a second EnsureStateUpdate in a row re-specifies: matrices sent,
\* textures or samplers bound, vertex attributes specified.
RespecifiesNothing(e) ==
    /\ \A t \in MatrixTypeSet : e.sends[t] = 0
    /\ e.textureBinds = {} /\ e.samplerBinds = {}
    /\ e.attribCalls = 0

\* C31 as stated: after an EnsureStateUpdate that returned true no update flag
\* is set, with and without vertex-array objects, and an EnsureStateUpdate that
\* follows it directly re-specifies nothing.
C31_AllFlagsClearedOnSuccess ==
    /\ [](esu.called /\ esu.result => s_updateFlags = Update_None)
    /\ [][ (esu.called /\ esu.result /\ esu'.called) => RespecifiesNothing(esu') ]_vars

\* What the code does instead (C31): with vertex-array objects no flag is left and a directly
\* following EnsureStateUpdate re-specifies nothing; without them Update_VAO,
\* and only it, is left set and a directly following EnsureStateUpdate
\* specifies the vertex attributes again, and nothing else.
C31_FlagsClearedExceptVAOFallback ==
    /\ [](esu.called /\ esu.result =>
             s_updateFlags = IF s_useVertexArrayObjects THEN Update_None ELSE {Update_VAO})
    /\ [][ (esu.called /\ esu.result /\ esu'.called) =>
              IF s_useVertexArrayObjects
              THEN RespecifiesNothing(esu')
              ELSE /\ RespecifiesNothing([ esu' EXCEPT !.attribCalls = 0 ])
                   /\ esu'.attribCalls > 0 /\ esu'.result ]_vars

\* Two draws in a row without vertex-array objects: the second one specified
\* the vertex attributes again and Update_VAO is still set.
C31_Witness ==
    /\ esu.called /\ esu.result /\ ~s_useVertexArrayObjects
    /\ ~esu.undrawnBefore /\ ~esu.touchedBefore
    /\ esu.attribCalls > 0
    /\ s_updateFlags = {Update_VAO}

InstancedDrawOps == {"DrawPrimitivesInstanced", "DrawIndexedPrimitivesInstanced"}

\* C32: at every draw submission the instancing flag of the cache, of the
\* vertex-array key and of the attribute layout is the kind of the draw, and
\* with vertex-array objects the vertex array bound for the draw exists in the
\* active context and has the four per-instance attributes iff the draw is an
\* instanced one.
C32_LayoutMatchesDrawKind ==
    (call.op \in DrawOps /\ call.submitted) =>
        LET instanced == call.op \in InstancedDrawOps
        IN /\ s_instancing = instanced
           /\ esu.key[4] = instanced
           /\ IF s_useVertexArrayObjects
              THEN /\ esu.handle \in gl.vaos[currentContext]
                   /\ (esu.handle \in gl.instanced[currentContext]) = instanced
              ELSE gl.layout.instancing = instanced

RectOps == {"SetViewport", "SetScissorRect"}

\* C33: SetViewport and SetScissorRect with no render target bound report an
\* error and return, issue no command and do not dereference the absent
\* target; with a rectangle that exceeds the target's width or height they
\* report an error and issue no command.
C33_RectChecksPrecedeUse ==
    /\ [][ (call'.op \in RectOps /\ s_target = Null) =>
              /\ ~call'.ok /\ ~call'.submitted
              /\ ~call'.derefNull /\ ~crashed' ]_vars
    /\ [][ (call'.op \in RectOps /\ s_target # Null
            /\ (\/ call'.arg.x + call'.arg.width > targets.size[s_target]
                \/ call'.arg.y + call'.arg.height > targets.size[s_target])) =>
              ~call'.ok /\ ~call'.submitted ]_vars

\* The part of C33 the code keeps: a rectangle exceeding the bound target is
\* rejected without a command.
C33_OutOfBoundsRejected ==
    [][ (call'.op \in RectOps /\ s_target # Null
         /\ (\/ call'.arg.x + call'.arg.width > targets.size[s_target]
             \/ call'.arg.y + call'.arg.height > targets.size[s_target])) =>
           ~call'.ok /\ ~call'.submitted ]_vars

\* IsInitialized
IsInitialized == s_moduleReferenceCounter # 0

\* Everything Initialize resets and Uninitialize releases, with the device.
ModuleState ==
    << CachedState, s_states, s_target, s_capInstancing, s_instancingBuffer,
       s_fullscreenQuadBuffer, s_currentVAO, currentContext, gl >>

\* C34: the counter counts the Initialize calls that returned true and were not
\* yet matched by an Uninitialize: it never goes below 0; an Initialize on an
\* initialized module returns true and leaves the module state alone; an
\* Initialize that returns true on an uninitialized module resets the state and
\* one that returns false is not counted; Uninitialize on a counter above 1
\* only decrements, on 1 tears down, on 0 does nothing.
C34_ReferenceCounted ==
    /\ [](s_moduleReferenceCounter >= 0)
    /\ [][ call'.op = "Initialize" =>
             /\ s_moduleReferenceCounter' =
                   s_moduleReferenceCounter + (IF call'.ok THEN 1 ELSE 0)
             /\ IsInitialized => call'.ok /\ ModuleState' = ModuleState
             /\ (~IsInitialized /\ call'.ok) =>
                   /\ s_updateFlags' = {Update_Matrices, Update_Shader, Update_VAO}
                   /\ s_shader' = Null /\ s_vertexBuffer' = Null /\ s_indexBuffer' = Null ]_vars
    /\ [][ call'.op = "Uninitialize" =>
             /\ s_moduleReferenceCounter > 1 =>
                   /\ s_moduleReferenceCounter' = s_moduleReferenceCounter - 1
                   /\ ModuleState' = ModuleState
             /\ s_moduleReferenceCounter = 1 =>
                   /\ s_moduleReferenceCounter' = 0
                   /\ call'.ok /\ DOMAIN s_textureUnits' = {} /\ gl' = DeviceReset
             /\ s_moduleReferenceCounter = 0 =>
                   /\ s_moduleReferenceCounter' = 0
                   /\ ModuleState' = ModuleState ]_vars

\* C35: an Initialize that returned false leaves the module uninitialized
\* (counter 0, IsInitialized false), and the Initialize that follows it
\* directly runs the whole initialization again.
C35_FailedInitializeLeavesUninitialized ==
    /\ []((call.op = "Initialize" /\ ~call.ok) => ~IsInitialized)
    /\ [][ (call.op = "Initialize" /\ ~call.ok
            /\ call'.op = "Initialize" /\ call'.arg = "none") =>
              /\ s_moduleReferenceCounter' = 1
              /\ s_fullscreenQuadBuffer' = FullscreenQuadBuffer
              /\ s_updateFlags' = {Update_Matrices, Update_Shader, Update_VAO}
              /\ DOMAIN s_textureUnits' = TextureUnitIds ]_vars

\* C36: in every state the pending set is non-empty iff Update_Textures is
\* set, holds indices of existing texture units only, and contains every unit
\* whose textureUpdated flag is false.
C36_PendingSetMatchesFlag ==
    /\ (s_dirtyTextureUnits # {}) = (Update_Textures \in s_updateFlags)
    /\ s_dirtyTextureUnits \subseteq DOMAIN s_textureUnits
    /\ \A i \in DOMAIN s_textureUnits :
          ~s_textureUnits[i].textureUpdated => i \in s_dirtyTextureUnits

\* The cached state of a handler's result.
CachedStateOf(st) ==
    << st.s_shader, st.s_vertexBuffer, st.s_indexBuffer, st.s_instancing, st.s_updateFlags,
       st.s_matrices, st.s_textureUnits, st.s_dirtyTextureUnits, st.s_vaos >>

\* C37: a setter given the value already cached leaves the whole cached state
\* as it is, update flags and pending set included: SetShader, SetIndexBuffer
\* and SetVertexBuffer with the current object, SetVertexBuffer with null,
\* EnableInstancing with the current flag and SetTexture with the unit's
\* current texture, applied once or twice.
C37_RedundantSettersMarkNothing ==
    /\ [][ (\/ call'.op = "SetShader" /\ call'.arg = s_shader
            \/ call'.op = "SetIndexBuffer" /\ call'.arg = s_indexBuffer
            \/ call'.op = "SetVertexBuffer" /\ call'.arg \in {s_vertexBuffer, Null}) =>
              CachedState' = CachedState ]_vars
    /\ [](/\ CachedStateOf(EnableInstancing(Snapshot, s_instancing)) = CachedState
          /\ \A unit \in DOMAIN s_textureUnits :
                LET once == SetTexture(Snapshot, unit, s_textureUnits[unit].texture)
                IN /\ CachedStateOf(once) = CachedState
                   /\ CachedStateOf(SetTexture(once, unit, s_textureUnits[unit].texture))
                         = CachedState
          /\ CachedStateOf(SetShader(SetShader(Snapshot, s_shader), s_shader)) = CachedState
          /\ CachedStateOf(SetIndexBuffer(SetIndexBuffer(Snapshot, s_indexBuffer),
                                          s_indexBuffer)) = CachedState
          /\ CachedStateOf(SetVertexBuffer(SetVertexBuffer(Snapshot, Null), s_vertexBuffer))
                = CachedState)

\* SetIndexBuffer has just been called with the index buffer that was already
\* set, after a draw had cleared the flags: Update_VAO is still clear.
C37_Witness ==
    /\ call.op = "SetIndexBuffer" /\ call.arg = s_indexBuffer /\ s_indexBuffer # Null
    /\ ~call.ok
    /\ s_vertexBuffer # Null /\ s_shader # Null
    /\ s_updateFlags = Update_None

\* C38: an OnUpdate with elapsed time dt > 0 leaves the rotation of the body of
\* every entity of the static set as it was, and sets its angular velocity to
\* the angle of (node rotation x conjugate(body rotation)) / dt when the two
\* rotations differed and to zero when they did not.
C38_StaticAngularVelocity ==
    [][ (upd'.called /\ m_world /\ upd'.elapsedTime.num # 0) =>
            \A e \in m_staticObjects :
                LET old == upd'.stepped[e]
                    dt == upd'.elapsedTime
                IN /\ bodies'[e].rotation = old.rotation
                   /\ bodies'[e].angularVelocity.finite
                   /\ bodies'[e].angularVelocity.value * dt.num =
                          TransitionAngle(nodes[e].rotation, old.rotation) * dt.den ]_vars

\* C39: a static entity comes to rest: an OnUpdate that directly follows
\* another OnUpdate, the node of the entity not having changed in between,
\* leaves the linear and the angular velocity of its body at zero.
C39_StaticBodyComesToRest ==
    [][ (upd.called /\ ~upd.crashed /\ upd'.called /\ m_world) =>
            \A e \in m_staticObjects \ m_dynamicObjects :
                /\ bodies'[e].velocity = ZeroVelocity
                /\ bodies'[e].angularVelocity = ZeroVelocity ]_vars

\* The linear half of C39, which the code keeps for the entities of the static
\* list that have their node and their collision body only.
C39_LinearVelocityComesToRest ==
    [][ (upd.called /\ ~upd.crashed /\ upd'.called /\ ~upd'.crashed /\ m_world) =>
            \A e \in m_staticObjects \ m_dynamicObjects :
                components[e] = {"NodeComponent", "CollisionComponent3D"} =>
                    bodies'[e].velocity = ZeroVelocity ]_vars

\* C40: an OnUpdate with a world that returns has stepped the world once with
\* the elapsed time it was given and has taken the reciprocal, whatever the
\* elapsed time; with elapsed time 0 the body of a static entity whose node
\* was away from it has the node's position and a non-finite linear velocity,
\* and one whose node was rotated against it a non-finite angular velocity.
C40_NoGuardOnElapsedTime ==
    [][ (upd'.called /\ m_world /\ ~upd'.crashed) =>
            /\ upd'.steps = 1 /\ upd'.reciprocal
            /\ upd'.elapsedTime.num = 0 =>
                  \A e \in m_staticObjects :
                      /\ nodes'[e].position # upd'.stepped[e].position =>
                            /\ ~bodies'[e].velocity.finite
                            /\ bodies'[e].position = nodes'[e].position
                      /\ nodes'[e].rotation # upd'.stepped[e].rotation =>
                            ~bodies'[e].angularVelocity.finite ]_vars

\* OnUpdate has returned from a tick of elapsed time 0 in which a static
\* entity's node had moved: the body is at the node, its velocity not finite.
C40_Witness ==
    /\ upd.called /\ m_world /\ ~upd.crashed /\ upd.elapsedTime.num = 0
    /\ \E e \in m_staticObjects :
          /\ {"NodeComponent", "CollisionComponent3D"} \subseteq components[e]
          /\ nodes[e].position # 0
          /\ bodies[e].position = nodes[e].position
          /\ ~bodies[e].velocity.finite

====
